---- MODULE Spec2Model ----
(***************************************************************************)
(* Model of grpcurl (grpcurl.go).                                          *)
(*                                                                         *)
(* Spec: the dynamic invocation engine, InvokeRPC and its four cardinality *)
(* sub-protocols invokeUnary, invokeClientStream, invokeServerStream and   *)
(* invokeBidi.  One behaviour is one invocation of InvokeRPC.  The         *)
(* descriptor source, the request supplier and the dynamic stub are the    *)
(* environment: each of their calls returns one of the results the callee  *)
(* can produce.  The calling goroutine is split into one action per        *)
(* external call; the bidi send goroutine is a second process with its own *)
(* program counter.                                                        *)
(*                                                                         *)
(* SpecLive: Spec with weak fairness for the goroutine that runs InvokeRPC *)
(* and for the stream operations of the send goroutine.                    *)
(*                                                                         *)
(* SpecDial: BlockingDial, its dialer, its background goroutine and the    *)
(* caller's context.                                                       *)
(*                                                                         *)
(* SpecOnce: concurrent callers of AllExtensionsForType of one file-backed *)
(* source, which builds its extension registry under a sync.Once.          *)
(*                                                                         *)
(* SpecFun: the sequential functions of the package (the reflection-backed *)
(* source, the two constructors of the file-backed source, GetAllFiles,    *)
(* parseSymbol at the head of InvokeRPC, MetadataFromHeaders,              *)
(* fetchAllExtensions), each applied to every input within the bounds:     *)
(* FunInit draws the function fn and its input arg, the action of the      *)
(* function computes its result out.                                       *)
(***************************************************************************)
EXTENDS Integers, Sequences, FiniteSets, TLC

(* ------------------------------ bounds --------------------------------- *)
\* distinct request payloads the supplier can produce
MaxReqMsg == 2
\* messages the supplier yields before it can only answer EOF or an error
MaxSupplied == 2
\* distinct response payloads the server can produce
MaxRespMsg == 2
\* messages a stream delivers before it can only answer EOF or an error
MaxReceived == 2

(* ----------------------------- constants ------------------------------- *)
\* the unpopulated request message made by msgFactory.NewMessage
EmptyMsg == 0

ReqMsgs == 1..MaxReqMsg
RespMsgs == 1..MaxRespMsg

\* non-OK gRPC status codes an error value can carry
StatusCodes == {"ResourceExhausted", "Unavailable"}
\* non-nil, non-EOF errors the stub can produce: a status error or an
\* error that is no gRPC status (transport failure)
StubErrs == StatusCodes \cup {"transport"}

Cardinalities == {"unary", "client", "server", "bidi"}

VARIABLES
    pc,         \* position of the goroutine that runs InvokeRPC
    card,       \* cardinality of the resolved method ("none" before)
    ctx,        \* child cancellation scope: "none", "active", "cancelled"
    err,        \* the err variable of the running sub-protocol
    resp,       \* the resp variable (EmptyMsg stands for nil)
    pending,    \* bidi: value of the return statement while defers run
    ret,        \* what InvokeRPC returned: "none" while running
    events,     \* handler callbacks made so far, in order
    responses,  \* arguments of the OnReceiveResponse calls, in order
    trailers,   \* status arguments of the OnReceiveTrailers calls
    supLog,     \* results of the supplier calls so far, in order
    req,        \* content of the request message req
    stubLog,    \* <<operation, result>> of the stub/stream calls made so
                \* far by the goroutine that runs InvokeRPC
    sendLog,    \* the same for the calls made by the bidi send goroutine
    str,        \* stream handle: "nil" or "open"
    sent,       \* payloads passed to SendMsg, in order
    recvd,      \* payloads RecvMsg returned, in order
    rpcReqs,    \* request payloads passed to InvokeRpc/InvokeRpcServerStream
    spc,        \* position of the bidi send goroutine ("none": not spawned)
    serr,       \* err variable of the send goroutine
    sendErr,    \* the atomic.Value sendErr ("unset" until stored)
    wg,         \* counter of the sync.WaitGroup
    callerCtx   \* the caller's cancellation scope: "active" or "cancelled"

\* a sequential function applied to an input
VARIABLES
    fn,         \* the function that is applied ("none" in Spec and SpecDial)
    arg,        \* its input
    phase,      \* "call" before the application, "ret" after it
    out         \* its result

\* BlockingDial
VARIABLES
    dialCtx,    \* the ctx argument: "active" or "done"
    creds,      \* whether transport credentials were given
    result,     \* content of the channel result (capacity 1)
    written,    \* arguments of the writeResult calls so far, in order
    dpc,        \* position of the goroutine that runs BlockingDial
    dialRet,    \* what BlockingDial returned
    gpc,        \* position of the goroutine that runs grpc.DialContext
    gres,       \* the res variable of that goroutine
    apc,        \* position of the running dialer call ("idle": none)
    attempts,   \* number of dialer calls so far
    connReady   \* a dialer call returned a connection

\* concurrent callers of AllExtensionsForType of one file-backed source
VARIABLES
    fsFiles,    \* names of the files of the source (fs.files)
    erInit,     \* the sync.Once fs.erInit: "fresh", "running" or "done"
    er,         \* the registry fs.er: its identity gen (0: nil pointer) and
                \* the files whose extensions it holds
    scans,      \* <<caller, file>> of the AddExtensionsFromFile calls so far
    epc,        \* position of each caller
    answers     \* the registry each caller answered from

mainVars == <<pc, card, ctx, err, resp, pending, ret>>
handlerVars == <<events, responses, trailers>>
supplierVars == <<supLog, req>>
stubVars == <<stubLog, sendLog, str, sent, recvd, rpcReqs>>
sendVars == <<spc, serr, sendErr, wg>>
invokeVars == <<mainVars, handlerVars, supplierVars, stubVars, sendVars, callerCtx>>
funVars == <<fn, arg, phase, out>>
dialVars == <<dialCtx, creds, result, written, dpc, dialRet, gpc, gres, apc, attempts, connReady>>
onceVars == <<fsFiles, erInit, er, scans, epc, answers>>
vars == <<invokeVars, funVars, dialVars, onceVars>>

\* a result slot that holds nothing
NoResult == [kind |-> "none", n |-> 0]

\* no sequential function is applied
FunIdle ==
    /\ fn = "none"
    /\ arg = <<>>
    /\ phase = "ret"
    /\ out = <<>>

\* BlockingDial is not called
DialIdle ==
    /\ dialCtx = "active"
    /\ creds = FALSE
    /\ result = <<>>
    /\ written = <<>>
    /\ dpc = "idle"
    /\ dialRet = NoResult
    /\ gpc = "idle"
    /\ gres = NoResult
    /\ apc = "idle"
    /\ attempts = 0
    /\ connReady = FALSE

\* a registry that was not allocated
NoRegistry == [gen |-> 0, files |-> {}]

\* AllExtensionsForType of a file-backed source is not called
OnceIdle ==
    /\ fsFiles = {}
    /\ erInit = "fresh"
    /\ er = NoRegistry
    /\ scans = <<>>
    /\ epc = <<>>
    /\ answers = <<>>

\* InvokeRPC is not called
InvokeIdle ==
    /\ pc = "idle"
    /\ card = "none"
    /\ ctx = "none"
    /\ err = "nil"
    /\ resp = 0
    /\ pending = "none"
    /\ ret = "none"
    /\ events = <<>>
    /\ responses = <<>>
    /\ trailers = <<>>
    /\ supLog = <<>>
    /\ req = 0
    /\ stubLog = <<>>
    /\ sendLog = <<>>
    /\ str = "nil"
    /\ sent = <<>>
    /\ recvd = <<>>
    /\ rpcReqs = <<>>
    /\ spc = "none"
    /\ serr = "nil"
    /\ sendErr = "unset"
    /\ wg = 0
    /\ callerCtx = "active"

(* ------------------------------ helpers -------------------------------- *)
\* status.FromError: nil is status OK, a status error yields its status,
\* anything else (io.EOF included) is not a status
FromError(e) ==
    IF e = "nil" THEN [stat |-> "OK", ok |-> TRUE]
    ELSE IF e \in StatusCodes \cup {"Unimplemented"} THEN [stat |-> e, ok |-> TRUE]
    ELSE [stat |-> "Unknown", ok |-> FALSE]

\* number of supplier calls that yielded a message
NumSupplied == Cardinality({i \in 1..Len(supLog) : supLog[i].res = "msg"})

\* results one call of the request supplier can have
SupplierResults ==
    {[res |-> "EOF", m |-> EmptyMsg], [res |-> "err", m |-> EmptyMsg]}
    \cup (IF NumSupplied < MaxSupplied
          THEN {[res |-> "msg", m |-> m] : m \in ReqMsgs} ELSE {})

\* requestData(req): the supplier populates req only when it yields a message
CallSupplier(r) ==
    /\ supLog' = Append(supLog, r)
    /\ req' = IF r.res = "msg" THEN r.m ELSE req

\* errors whose text contains md.GetFullyQualifiedName()
NamesMethod(e) == e \in {"errTooMany", "errGrpcFailed"}

Return_NoCancel(e) ==
    /\ ret' = e
    /\ pc' = "done"
    /\ ctx' = ctx

\* a return statement of InvokeRPC or of a sub-protocol it returns through;
\* the deferred cancel() runs when the child scope exists
Return(e) ==
    /\ ret' = e
    /\ pc' = "done"
    /\ ctx' = IF ctx = "active" THEN "cancelled" ELSE ctx

\* a method call on the nil stream handle: the goroutine panics, the
\* deferred cancel() runs and InvokeRPC does not return a value
Panic == Return("panic")

Init ==
    /\ pc = "start"
    /\ card = "none"
    /\ ctx = "none"
    /\ err = "nil"
    /\ resp = EmptyMsg
    /\ pending = "none"
    /\ ret = "none"
    /\ events = <<>>
    /\ responses = <<>>
    /\ trailers = <<>>
    /\ supLog = <<>>
    /\ req = EmptyMsg
    /\ stubLog = <<>>
    /\ sendLog = <<>>
    /\ str = "nil"
    /\ sent = <<>>
    /\ recvd = <<>>
    /\ rpcReqs = <<>>
    /\ spc = "none"
    /\ serr = "nil"
    /\ sendErr = "unset"
    /\ wg = 0
    /\ callerCtx = "active"
    /\ FunIdle
    /\ DialIdle
    /\ OnceIdle

(* --------------------------- InvokeRPC --------------------------------- *)
\* parseSymbol, FindSymbol, FindMethodByName and OnResolveMethod
ResolveMethod ==
    /\ pc = "start"
    /\ \/ \E e \in {"errMalformed", "errNoService", "errQueryFailed", "errNoMethod"} :
            /\ Return(e)
            /\ UNCHANGED <<card, events>>
       \/ \E c \in Cardinalities :
            /\ card' = c
            /\ events' = Append(events, "OnResolveMethod")
            /\ pc' = "fetchExt"
            /\ UNCHANGED <<ctx, ret>>
    /\ UNCHANGED <<err, resp, pending, responses, trailers>>
    /\ UNCHANGED <<supplierVars, stubVars, sendVars>>
    /\ UNCHANGED <<callerCtx, funVars, dialVars, onceVars>>

\* slip: the extensions are fetched after OnSendHeaders
FetchExtensions_AfterHeaders ==
    /\ pc = "fetchExt"
    /\ events' = Append(events, "OnSendHeaders")
    /\ \/ Return("errExtensions")
       \/ /\ pc' = "dispatch"
          /\ UNCHANGED <<ctx, ret>>
    /\ UNCHANGED <<card, err, resp, pending, responses, trailers>>
    /\ UNCHANGED <<supplierVars, stubVars, sendVars>>
    /\ UNCHANGED <<callerCtx, funVars, dialVars, onceVars>>

\* the two fetchAllExtensions calls for the input and the output type
FetchExtensions ==
    /\ pc = "fetchExt"
    /\ \/ Return("errExtensions")
       \/ /\ pc' = "dispatch"
          /\ UNCHANGED <<ctx, ret>>
    /\ UNCHANGED <<card, err, resp, pending>>
    /\ UNCHANGED <<handlerVars, supplierVars, stubVars, sendVars>>
    /\ UNCHANGED <<callerCtx, funVars, dialVars, onceVars>>

\* context.WithCancel(parent): the child scope is cancelled from the start
\* when the parent already is
WithCancel(parent) == IF parent = "cancelled" THEN "cancelled" ELSE "active"

\* the request message, OnSendHeaders, the child scope and the dispatch
SendHeaders ==
    /\ pc = "dispatch"
    /\ req' = EmptyMsg
    /\ events' = Append(events, "OnSendHeaders")
    /\ ctx' = WithCancel(callerCtx)
    /\ pc' = CASE card = "bidi" -> "bd_open"
               [] card = "client" -> "cs_open"
               [] card = "server" -> "ss_sup1"
               [] OTHER -> "u_sup1"
    /\ UNCHANGED <<card, err, resp, pending, ret, responses, trailers, supLog>>
    /\ UNCHANGED <<stubVars, sendVars>>
    /\ UNCHANGED <<callerCtx, funVars, dialVars, onceVars>>

(* ------------------------- handler and stub --------------------------- *)
InSeq(s, x) == \E i \in 1..Len(s) : s[i] = x

\* the handler callbacks evs are made in order; msg is the argument of
\* OnReceiveResponse and stat the status argument of OnReceiveTrailers
Fire(evs, msg, stat) ==
    /\ events' = events \o evs
    /\ responses' = IF InSeq(evs, "OnReceiveResponse")
                    THEN Append(responses, msg) ELSE responses
    /\ trailers' = IF InSeq(evs, "OnReceiveTrailers")
                   THEN Append(trailers, stat) ELSE trailers

\* results of a call that yields a message or an error: InvokeRpc and
\* CloseAndReceive (eof tells whether io.EOF is a possible error)
ReplyResults(eof) ==
    {[res |-> "nil", m |-> m] : m \in RespMsgs}
    \cup {[res |-> e, m |-> EmptyMsg] : e \in StubErrs \cup (IF eof THEN {"EOF"} ELSE {})}

\* results of RecvMsg on an open stream
RecvResults ==
    {[res |-> e, m |-> EmptyMsg] : e \in StubErrs \cup {"EOF"}}
    \cup (IF Len(recvd) < MaxReceived
          THEN {[res |-> "nil", m |-> m] : m \in RespMsgs} ELSE {})

\* the stub opens a stream: the handle is nil when it returns an error
OpenStream(op, r) ==
    /\ stubLog' = Append(stubLog, <<op, r>>)
    /\ str' = IF r = "nil" THEN "open" ELSE "nil"
    /\ err' = r

(* ------------------ single-request discipline -------------------------- *)
\* slip: an exhausted supplier is asked once more
AfterFirstSupply_AskAgain(r) ==
    IF r.res = "err" THEN "fail" ELSE "second"

\* what follows the first requestData call of invokeUnary and
\* invokeServerStream
AfterFirstSupply(r) ==
    IF r.res = "err" THEN "fail"
    ELSE IF r.res = "EOF" THEN "invoke"
    ELSE "second"

\* slip: a surplus request message is ignored
AfterSecondSupply_AcceptSurplus(r) ==
    IF r.res = "err" THEN "fail" ELSE "invoke"

\* what follows the second requestData call
AfterSecondSupply(r) ==
    IF r.res = "msg" THEN "tooMany"
    ELSE IF r.res = "EOF" THEN "invoke"
    ELSE "fail"

\* the error value a supplier result stands for
SupplierErr(r) ==
    IF r.res = "msg" THEN "nil" ELSE IF r.res = "EOF" THEN "EOF" ELSE "supplier"

\* first requestData call; second and invoke are the positions that follow
Supplier1(here, second, invoke) ==
    /\ pc = here
    /\ \E r \in SupplierResults :
        /\ CallSupplier(r)
        /\ err' = SupplierErr(r)
        /\ CASE AfterFirstSupply(r) = "fail" -> Return("errRequestData")
             [] AfterFirstSupply(r) = "invoke" -> pc' = invoke /\ UNCHANGED <<ctx, ret>>
             [] OTHER -> pc' = second /\ UNCHANGED <<ctx, ret>>
    /\ UNCHANGED <<card, resp, pending>>
    /\ UNCHANGED <<handlerVars, stubVars, sendVars>>
    /\ UNCHANGED <<callerCtx, funVars, dialVars, onceVars>>

\* second requestData call, which must answer io.EOF
Supplier2(here, invoke) ==
    /\ pc = here
    /\ \E r \in SupplierResults :
        /\ CallSupplier(r)
        /\ CASE AfterSecondSupply(r) = "fail" -> Return("errRequestData")
             [] AfterSecondSupply(r) = "tooMany" -> Return("errTooMany")
             [] OTHER -> pc' = invoke /\ UNCHANGED <<ctx, ret>>
    /\ UNCHANGED <<card, err, resp, pending>>
    /\ UNCHANGED <<handlerVars, stubVars, sendVars>>
    /\ UNCHANGED <<callerCtx, funVars, dialVars, onceVars>>

(* ----------------------------- invokeUnary ----------------------------- *)
UnarySupplier1 == Supplier1("u_sup1", "u_sup2", "u_invoke")

UnarySupplier2 == Supplier2("u_sup2", "u_invoke")

\* slip: the trailers are reported before the response
UnaryEvents_TrailersFirst(stat) ==
    <<"OnReceiveHeaders", "OnReceiveTrailers">>
    \o (IF stat = "OK" THEN <<"OnReceiveResponse">> ELSE <<>>)

\* callbacks of invokeUnary once the error is a status
UnaryEvents(stat) ==
    <<"OnReceiveHeaders">>
    \o (IF stat = "OK" THEN <<"OnReceiveResponse">> ELSE <<>>)
    \o <<"OnReceiveTrailers">>

\* stub.InvokeRpc, the classification of its error and the callbacks
UnaryInvoke ==
    /\ pc = "u_invoke"
    /\ \E r \in ReplyResults(FALSE) :
        /\ stubLog' = Append(stubLog, <<"InvokeRpc", r.res>>)
        /\ rpcReqs' = Append(rpcReqs, req)
        /\ err' = r.res
        /\ resp' = r.m
        /\ IF FromError(r.res).ok
           THEN /\ Fire(UnaryEvents(FromError(r.res).stat), r.m, FromError(r.res).stat)
                /\ Return("nil")
           ELSE /\ Return("errGrpcFailed")
                /\ UNCHANGED handlerVars
    /\ UNCHANGED <<card, pending, sendLog, str, sent, recvd>>
    /\ UNCHANGED <<supplierVars, sendVars>>
    /\ UNCHANGED <<callerCtx, funVars, dialVars, onceVars>>

(* ------------------------- invokeServerStream -------------------------- *)
ServerStreamSupplier1 == Supplier1("ss_sup1", "ss_sup2", "ss_open")

ServerStreamSupplier2 == Supplier2("ss_sup2", "ss_open")

\* stub.InvokeRpcServerStream
ServerStreamOpen ==
    /\ pc = "ss_open"
    /\ \E r \in {"nil"} \cup StubErrs : OpenStream("InvokeRpcServerStream", r)
    /\ rpcReqs' = Append(rpcReqs, req)
    /\ pc' = "ss_header"
    /\ UNCHANGED <<card, ctx, resp, pending, ret, sendLog, sent, recvd>>
    /\ UNCHANGED <<handlerVars, supplierVars, sendVars>>
    /\ UNCHANGED <<callerCtx, funVars, dialVars, onceVars>>

\* results of Header() on an open stream
HeaderResults == {"nil", "transport"}

\* callback that follows str.Header()
HeaderEvents(h) == IF h = "nil" THEN <<"OnReceiveHeaders">> ELSE <<>>

\* str.Header() and OnReceiveHeaders of a server or bidi stream; next is
\* the position of the receive loop, after the position that follows it
StreamHeader(here, next, after) ==
    /\ pc = here
    /\ IF str = "nil"
       THEN /\ stubLog' = Append(stubLog, <<"Header", "panic">>)
            /\ IF card = "bidi"
               THEN pending' = "panic" /\ pc' = "bd_wait" /\ UNCHANGED <<ctx, ret>>
               ELSE Panic /\ UNCHANGED pending
            /\ UNCHANGED handlerVars
       ELSE /\ \E h \in HeaderResults :
                /\ stubLog' = Append(stubLog, <<"Header", h>>)
                /\ Fire(HeaderEvents(h), EmptyMsg, "OK")
            /\ pc' = IF err = "nil" THEN next ELSE after
            /\ UNCHANGED <<ctx, ret, pending>>
    /\ UNCHANGED <<card, err, resp, sendLog, str, sent, recvd, rpcReqs>>
    /\ UNCHANGED <<supplierVars, sendVars>>
    /\ UNCHANGED <<callerCtx, funVars, dialVars, onceVars>>

\* slip: the headers are reported again with every message
RecvEvents_WithHeaders(r) ==
    IF r.res = "nil" THEN <<"OnReceiveHeaders", "OnReceiveResponse">> ELSE <<>>

\* slip: the end of the stream is reported as one more response
RecvEvents_AlsoAtEOF(r) ==
    IF r.res \in {"nil", "EOF"} THEN <<"OnReceiveResponse">> ELSE <<>>

\* callbacks of one iteration of a receive loop
RecvEvents(r) == IF r.res = "nil" THEN <<"OnReceiveResponse">> ELSE <<>>

\* the value of err when an iteration of a receive loop ends
RecvErr(r) == IF r.res = "EOF" THEN "nil" ELSE r.res

\* one iteration of the receive loop of a server or bidi stream
StreamRecv(here, after) ==
    /\ pc = here
    /\ \E r \in RecvResults :
        /\ stubLog' = Append(stubLog, <<"RecvMsg", r.res>>)
        /\ recvd' = IF r.res = "nil" THEN Append(recvd, r.m) ELSE recvd
        /\ resp' = r.m
        /\ err' = RecvErr(r)
        /\ Fire(RecvEvents(r), r.m, "OK")
        /\ pc' = IF r.res = "nil" THEN here ELSE after
    /\ UNCHANGED <<card, ctx, pending, ret, sendLog, str, sent, rpcReqs>>
    /\ UNCHANGED <<supplierVars, sendVars>>
    /\ UNCHANGED <<callerCtx, funVars, dialVars, onceVars>>

ServerStreamHeader == StreamHeader("ss_header", "ss_recv", "ss_finish")

ServerStreamRecv == StreamRecv("ss_recv", "ss_finish")

\* classification of err, str.Trailer() and OnReceiveTrailers
ServerStreamFinish ==
    /\ pc = "ss_finish"
    /\ IF FromError(err).ok
       THEN /\ stubLog' = Append(stubLog, <<"Trailer", "nil">>)
            /\ Fire(<<"OnReceiveTrailers">>, EmptyMsg, FromError(err).stat)
            /\ Return("nil")
       ELSE /\ Return("errGrpcFailed")
            /\ UNCHANGED <<handlerVars, stubLog>>
    /\ UNCHANGED <<card, err, resp, pending, sendLog, str, sent, recvd, rpcReqs>>
    /\ UNCHANGED <<supplierVars, sendVars>>
    /\ UNCHANGED <<callerCtx, funVars, dialVars, onceVars>>

(* ------------------------- invokeClientStream -------------------------- *)
\* stub.InvokeRpcClientStream; the send loop is skipped when it fails
ClientStreamOpen ==
    /\ pc = "cs_open"
    /\ \E r \in {"nil"} \cup StubErrs :
        /\ OpenStream("InvokeRpcClientStream", r)
        /\ pc' = IF r = "nil" THEN "cs_supply" ELSE "cs_finish"
    /\ UNCHANGED <<card, ctx, resp, pending, ret, sendLog, sent, recvd, rpcReqs>>
    /\ UNCHANGED <<handlerVars, supplierVars, sendVars>>
    /\ UNCHANGED <<callerCtx, funVars, dialVars, onceVars>>

\* requestData(req) in the send loop
ClientStreamSupply ==
    /\ pc = "cs_supply"
    /\ \E r \in SupplierResults :
        /\ CallSupplier(r)
        /\ err' = SupplierErr(r)
        /\ CASE r.res = "EOF" -> pc' = "cs_close" /\ UNCHANGED <<ctx, ret>>
             [] r.res = "err" -> Return("errRequestData")
             [] OTHER -> pc' = "cs_send" /\ UNCHANGED <<ctx, ret>>
    /\ UNCHANGED <<card, resp, pending>>
    /\ UNCHANGED <<handlerVars, stubVars, sendVars>>
    /\ UNCHANGED <<callerCtx, funVars, dialVars, onceVars>>

\* results of SendMsg on an open stream
SendResults == {"nil", "EOF"} \cup StubErrs

\* slip: io.EOF on send is taken for a successful send
AfterSend_KeepSending(r) ==
    IF r \in {"nil", "EOF"} THEN "cs_supply" ELSE "cs_finish"

\* where the send loop of invokeClientStream goes after SendMsg returned r
AfterSend(r) ==
    IF r = "EOF" THEN "cs_close"
    ELSE IF r = "nil" THEN "cs_supply"
    ELSE "cs_finish"

\* str.SendMsg(req) and req.Reset() in the send loop
ClientStreamSend ==
    /\ pc = "cs_send"
    /\ \E r \in SendResults :
        /\ stubLog' = Append(stubLog, <<"SendMsg", r>>)
        /\ sent' = Append(sent, req)
        /\ err' = r
        /\ req' = IF r = "EOF" THEN req ELSE EmptyMsg
        /\ pc' = AfterSend(r)
    /\ UNCHANGED <<card, ctx, resp, pending, ret, supLog, sendLog, str, recvd, rpcReqs>>
    /\ UNCHANGED <<handlerVars, sendVars>>
    /\ UNCHANGED <<callerCtx, funVars, dialVars, onceVars>>

\* str.CloseAndReceive()
ClientStreamCloseAndReceive ==
    /\ pc = "cs_close"
    /\ \E r \in ReplyResults(TRUE) :
        /\ stubLog' = Append(stubLog, <<"CloseAndReceive", r.res>>)
        /\ resp' = r.m
        /\ err' = r.res
    /\ pc' = "cs_finish"
    /\ UNCHANGED <<card, ctx, pending, ret, sendLog, str, sent, recvd, rpcReqs>>
    /\ UNCHANGED <<handlerVars, supplierVars, sendVars>>
    /\ UNCHANGED <<callerCtx, funVars, dialVars, onceVars>>

\* slip: the response is reported whatever the status
ClientStreamEvents_AlwaysResponse(h, stat) ==
    HeaderEvents(h) \o <<"OnReceiveResponse", "OnReceiveTrailers">>

\* callbacks of invokeClientStream once the error is a status; h is the
\* error of str.Header()
ClientStreamEvents(h, stat) ==
    HeaderEvents(h)
    \o (IF stat = "OK" THEN <<"OnReceiveResponse">> ELSE <<>>)
    \o <<"OnReceiveTrailers">>

\* classification of err, str.Header(), the callbacks and str.Trailer()
ClientStreamFinish ==
    /\ pc = "cs_finish"
    /\ IF ~FromError(err).ok
       THEN /\ Return("errGrpcFailed")
            /\ UNCHANGED <<handlerVars, stubLog>>
       ELSE IF str = "nil"
       THEN /\ stubLog' = Append(stubLog, <<"Header", "panic">>)
            /\ Panic
            /\ UNCHANGED handlerVars
       ELSE \E h \in HeaderResults :
            /\ stubLog' = stubLog \o << <<"Header", h>>, <<"Trailer", "nil">> >>
            /\ Fire(ClientStreamEvents(h, FromError(err).stat), resp, FromError(err).stat)
            /\ Return("nil")
    /\ UNCHANGED <<card, err, resp, pending, sendLog, str, sent, recvd, rpcReqs>>
    /\ UNCHANGED <<supplierVars, sendVars>>
    /\ UNCHANGED <<callerCtx, funVars, dialVars, onceVars>>

(* ------------------------------ invokeBidi ----------------------------- *)
\* stub.InvokeRpcBidiStream, defer wg.Wait() and the go statement
BidiOpen ==
    /\ pc = "bd_open"
    /\ \E r \in {"nil"} \cup StubErrs :
        /\ OpenStream("InvokeRpcBidiStream", r)
        /\ wg' = IF r = "nil" THEN wg + 1 ELSE wg
        /\ spc' = IF r = "nil" THEN "supply" ELSE spc
    /\ pc' = "bd_header"
    /\ UNCHANGED <<card, ctx, resp, pending, ret, sendLog, sent, recvd, rpcReqs, serr, sendErr>>
    /\ UNCHANGED <<handlerVars, supplierVars>>
    /\ UNCHANGED <<callerCtx, funVars, dialVars, onceVars>>

BidiHeader == StreamHeader("bd_header", "bd_recv", "bd_classify")

BidiRecv == StreamRecv("bd_recv", "bd_classify")

\* the error that sendErr.Load() makes the final one
Supersede(e, se) == IF se \notin {"unset", "EOF"} THEN se ELSE e

\* sendErr.Load(), classification, str.Trailer(), OnReceiveTrailers and
\* the return statement, whose value waits for the deferred wg.Wait()
BidiClassify ==
    /\ pc = "bd_classify"
    /\ err' = Supersede(err, sendErr)
    /\ IF FromError(err').ok
       THEN /\ stubLog' = Append(stubLog, <<"Trailer", "nil">>)
            /\ Fire(<<"OnReceiveTrailers">>, EmptyMsg, FromError(err').stat)
            /\ pending' = "nil"
       ELSE /\ pending' = "errGrpcFailed"
            /\ UNCHANGED <<handlerVars, stubLog>>
    /\ pc' = "bd_wait"
    /\ UNCHANGED <<card, ctx, resp, ret, sendLog, str, sent, recvd, rpcReqs>>
    /\ UNCHANGED <<supplierVars, sendVars>>
    /\ UNCHANGED <<callerCtx, funVars, dialVars, onceVars>>

WaitReturns_AtOnce == TRUE

\* wg.Wait() returns once the counter is zero
WaitReturns == wg = 0

\* the deferred wg.Wait() returns once the send goroutine is done
BidiWait ==
    /\ pc = "bd_wait"
    /\ WaitReturns
    /\ Return(pending)
    /\ UNCHANGED <<card, err, resp, pending>>
    /\ UNCHANGED <<handlerVars, supplierVars, stubVars, sendVars>>
    /\ UNCHANGED <<callerCtx, funVars, dialVars, onceVars>>

(* ------------------------ bidi send goroutine -------------------------- *)
\* requestData(req) in the goroutine
SendSupply ==
    /\ spc = "supply"
    /\ \E r \in SupplierResults :
        /\ CallSupplier(r)
        /\ serr' = IF r.res = "err" THEN "errRequestData" ELSE SupplierErr(r)
        /\ spc' = CASE r.res = "EOF" -> "closeSend"
                    [] r.res = "err" -> "store"
                    [] OTHER -> "send"
    /\ UNCHANGED <<sendErr, wg>>
    /\ UNCHANGED <<mainVars, handlerVars, stubVars>>
    /\ UNCHANGED <<callerCtx, funVars, dialVars, onceVars>>

\* str.SendMsg(req) and req.Reset() in the goroutine
SendSendMsg ==
    /\ spc = "send"
    /\ \E r \in SendResults :
        /\ sendLog' = Append(sendLog, <<"SendMsg", r>>)
        /\ sent' = Append(sent, req)
        /\ serr' = r
        /\ req' = EmptyMsg
        /\ spc' = IF r = "nil" THEN "supply" ELSE "store"
    /\ UNCHANGED <<supLog, stubLog, str, recvd, rpcReqs, sendErr, wg>>
    /\ UNCHANGED <<mainVars, handlerVars>>
    /\ UNCHANGED <<callerCtx, funVars, dialVars, onceVars>>

\* str.CloseSend() after the supplier's io.EOF
SendCloseSend ==
    /\ spc = "closeSend"
    /\ \E r \in {"nil"} \cup StubErrs :
        /\ sendLog' = Append(sendLog, <<"CloseSend", r>>)
        /\ serr' = r
    /\ spc' = "store"
    /\ UNCHANGED <<stubLog, str, sent, recvd, rpcReqs, sendErr, wg>>
    /\ UNCHANGED <<mainVars, handlerVars, supplierVars>>
    /\ UNCHANGED <<callerCtx, funVars, dialVars, onceVars>>

\* sendErr.Store(err) when err is not nil, then the deferred wg.Done()
SendStore ==
    /\ spc = "store"
    /\ sendErr' = IF serr # "nil" THEN serr ELSE sendErr
    /\ wg' = wg - 1
    /\ spc' = "done"
    /\ UNCHANGED serr
    /\ UNCHANGED <<mainVars, handlerVars, supplierVars, stubVars>>
    /\ UNCHANGED <<callerCtx, funVars, dialVars, onceVars>>

(* ------------------------- the caller's scope -------------------------- *)
\* the caller cancels its scope while InvokeRPC runs: the child scope made
\* by context.WithCancel is cancelled with it
CancelCaller ==
    /\ pc \notin {"idle", "done"}
    /\ callerCtx = "active"
    /\ callerCtx' = "cancelled"
    /\ ctx' = IF ctx = "active" THEN "cancelled" ELSE ctx
    /\ UNCHANGED <<pc, card, err, resp, pending, ret>>
    /\ UNCHANGED <<handlerVars, supplierVars, stubVars, sendVars>>
    /\ UNCHANGED <<funVars, dialVars, onceVars>>

(* --------------------------- specification ----------------------------- *)
Next ==
    \/ ResolveMethod
    \/ FetchExtensions
    \/ SendHeaders
    \/ UnarySupplier1
    \/ UnarySupplier2
    \/ UnaryInvoke
    \/ ServerStreamSupplier1
    \/ ServerStreamSupplier2
    \/ ServerStreamOpen
    \/ ServerStreamHeader
    \/ ServerStreamRecv
    \/ ServerStreamFinish
    \/ ClientStreamOpen
    \/ ClientStreamSupply
    \/ ClientStreamSend
    \/ ClientStreamCloseAndReceive
    \/ ClientStreamFinish
    \/ BidiOpen
    \/ BidiHeader
    \/ BidiRecv
    \/ BidiClassify
    \/ BidiWait
    \/ SendSupply
    \/ SendSendMsg
    \/ SendCloseSend
    \/ SendStore
    \/ CancelCaller

Spec == Init /\ [][Next]_vars

TypeOK ==
    /\ card \in Cardinalities \cup {"none"}
    /\ ctx \in {"none", "active", "cancelled"}
    /\ wg \in {0, 1}
    /\ callerCtx \in {"active", "cancelled"}
    /\ req \in ReqMsgs \cup {EmptyMsg}
    /\ Len(recvd) <= MaxReceived

(* ------------------------ derived observations ------------------------ *)
\* number of times the callback e was made
Count(e) == Cardinality({i \in 1..Len(events) : events[i] = e})

\* place of a callback in the order of the handler contract
Rank(e) ==
    CASE e = "OnResolveMethod" -> 1
      [] e = "OnSendHeaders" -> 2
      [] e = "OnReceiveHeaders" -> 3
      [] e = "OnReceiveResponse" -> 4
      [] OTHER -> 5

\* some call of the supplier returned an error other than io.EOF
SupplierFailed == \E i \in 1..Len(supLog) : supLog[i].res = "err"

\* the stub operation op returned r at some point
StubReturned(op, r) ==
    \/ \E i \in 1..Len(stubLog) : stubLog[i] = <<op, r>>
    \/ \E i \in 1..Len(sendLog) : sendLog[i] = <<op, r>>

OpenOps == {"InvokeRpcClientStream", "InvokeRpcServerStream", "InvokeRpcBidiStream"}

\* the errors the stub produced that end the call: the result of InvokeRpc
\* and of CloseAndReceive, a failure to open the stream, to send (io.EOF
\* on send only announces the status) or to close the sending side, and
\* the error that ended the receive loop (io.EOF is the normal end: nil)
StubTerminal ==
    {r \in {"nil", "EOF"} \cup StubErrs :
        \/ StubReturned("InvokeRpc", r)
        \/ StubReturned("CloseAndReceive", r)
        \/ r # "nil" /\ \E op \in OpenOps \cup {"CloseSend"} : StubReturned(op, r)
        \/ r \notin {"nil", "EOF"} /\ StubReturned("SendMsg", r)
        \/ r \in StubErrs /\ StubReturned("RecvMsg", r)
        \/ r = "nil" /\ StubReturned("RecvMsg", "EOF")}

(* ------------------------------- C1 ------------------------------------ *)
\* C1: in every invocation the handler events occur in the order
\* OnResolveMethod, OnSendHeaders, at most one OnReceiveHeaders, any number
\* of OnReceiveResponse, OnReceiveTrailers: nothing precedes
\* OnResolveMethod, OnSendHeaders precedes every receive event and nothing
\* follows OnReceiveTrailers.
C1_EventOrder ==
    /\ \A i, j \in 1..Len(events) : i < j => Rank(events[i]) <= Rank(events[j])
    /\ events # <<>> => events[1] = "OnResolveMethod"
    /\ Len(events) >= 2 => events[2] = "OnSendHeaders"
    /\ Count("OnReceiveHeaders") <= 1
    /\ \A i \in 1..Len(events) : events[i] = "OnReceiveTrailers" => i = Len(events)

C1_Witness ==
    /\ card = "bidi"
    /\ ret = "nil"
    /\ events = <<"OnResolveMethod", "OnSendHeaders", "OnReceiveHeaders",
                  "OnReceiveResponse", "OnReceiveResponse", "OnReceiveTrailers">>

(* ------------------------------- C2 ------------------------------------ *)
\* C2: whenever every error the stub produced after dispatch (at stream
\* open, on send, on receive or on close-and-receive) is a valid gRPC
\* status (OK or not), InvokeRPC has called OnReceiveTrailers exactly once
\* with such a status and returned nil.  (Invocations the supplier or a
\* surplus request message ended are the subject of C4 and C6.)
C2_StatusToTrailers ==
    (/\ pc = "done"
     /\ ~SupplierFailed
     /\ ret # "errTooMany"
     /\ StubTerminal # {}
     /\ \A e \in StubTerminal : FromError(e).ok)
    => /\ ret = "nil"
       /\ Len(trailers) = 1
       /\ trailers[1] \in {FromError(e).stat : e \in StubTerminal}

(* ------------------------------- C3 ------------------------------------ *)
\* C3: whenever the terminal error of a dispatched call is no gRPC status
\* (a transport failure, or the usage error of a surplus request message)
\* InvokeRPC returns an error that names the method and never calls
\* OnReceiveTrailers; and it returns nil only after OnReceiveTrailers.
C3_NonStatusReturned ==
    (pc = "done" /\ ctx # "none" /\ ~SupplierFailed)
    => /\ (ret = "errTooMany" \/ ~FromError(err).ok)
            => (NamesMethod(ret) /\ trailers = <<>>)
       /\ ret = "nil" => Len(trailers) >= 1

(* ------------------------------- C4 ------------------------------------ *)
\* C4: if a call of the request supplier returned an error other than EOF,
\* OnReceiveTrailers is not called in that invocation and InvokeRPC
\* returns a non-nil error.
C4_SupplierFailure ==
    SupplierFailed
    => /\ trailers = <<>>
       /\ pc = "done" => ret \notin {"nil", "panic", "none"}

(* ------------------------------- C5 ------------------------------------ *)
\* C5: in every invocation OnResolveMethod, OnSendHeaders, OnReceiveHeaders
\* and OnReceiveTrailers are each called at most once.
C5_AtMostOnce ==
    \A e \in {"OnResolveMethod", "OnSendHeaders", "OnReceiveHeaders", "OnReceiveTrailers"} :
        Count(e) <= 1

C5_Witness ==
    /\ card = "server"
    /\ pc = "done"
    /\ Count("OnReceiveHeaders") = 1
    /\ Count("OnReceiveTrailers") = 1
    /\ Count("OnReceiveResponse") = 2

(* ------------------------------- C6 ------------------------------------ *)
\* C6: for a unary or server-streaming method the supplier is called at
\* most twice, and when both calls yield a message InvokeRPC returns the
\* error that names the method without initiating the RPC and without any
\* of OnReceiveHeaders, OnReceiveResponse, OnReceiveTrailers.
TwoMessages ==
    /\ Len(supLog) >= 2
    /\ supLog[1].res = "msg"
    /\ supLog[2].res = "msg"

C6_TooManyRequests ==
    card \in {"unary", "server"}
    => /\ Len(supLog) <= 2
       /\ TwoMessages
            => /\ pc = "done"
               /\ ret = "errTooMany"
               /\ NamesMethod(ret)
               /\ rpcReqs = <<>>
               /\ stubLog = <<>>
               /\ sendLog = <<>>
               /\ \A i \in 1..Len(events) : Rank(events[i]) <= 2

C6_Witness ==
    /\ card = "server"
    /\ TwoMessages
    /\ ret = "errTooMany"

(* ------------------------------- C7 ------------------------------------ *)
\* C7: for a unary or server-streaming method the RPC is initiated at most
\* once; when the supplier's first call returns EOF it is not called again
\* and the RPC is initiated with the empty request; when the first call
\* yields a message and the second returns EOF the RPC is initiated with
\* that message.
C7_SingleRequest ==
    card \in {"unary", "server"}
    => /\ Len(rpcReqs) <= 1
       /\ (supLog # <<>> /\ supLog[1].res = "EOF")
            => /\ Len(supLog) = 1
               /\ pc = "done" => rpcReqs = <<EmptyMsg>>
       /\ (Len(supLog) = 2 /\ supLog[1].res = "msg" /\ supLog[2].res = "EOF")
            => (pc = "done" => rpcReqs = <<supLog[1].m>>)

C7_Witness ==
    /\ card = "unary"
    /\ pc = "done"
    /\ Len(supLog) = 1
    /\ supLog[1].res = "EOF"
    /\ rpcReqs = <<EmptyMsg>>

(* ------------------------------- C8 ------------------------------------ *)
\* C8: in a unary or client-streaming invocation OnReceiveResponse is
\* called at most once, and only together with a final status OK passed to
\* OnReceiveTrailers: with a status that is not OK no response is delivered.
C8_ResponseOnlyIfOK ==
    card \in {"unary", "client"}
    => /\ Len(responses) <= 1
       /\ (responses # <<>> /\ pc = "done") => trailers = <<"OK">>
       /\ (trailers # <<>> /\ trailers[1] # "OK") => responses = <<>>

C8_Witness ==
    /\ card = "client"
    /\ pc = "done"
    /\ Len(responses) = 1
    /\ trailers = <<"OK">>

(* ------------------------------- C9 ------------------------------------ *)
\* C9: in a server-streaming or bidi invocation OnReceiveResponse is called
\* once for each message RecvMsg returned, in that order, and not for a
\* RecvMsg that returned EOF or an error; a receive loop that io.EOF ended
\* leaves the error nil, which is classified as status OK.
C9_ResponsePerMessage ==
    card \in {"server", "bidi"}
    => /\ responses = recvd
       /\ Count("OnReceiveResponse") = Len(recvd)
       /\ StubReturned("RecvMsg", "EOF")
            => /\ pc \in {"ss_finish", "bd_classify"} => err = "nil"
               /\ (card = "server" /\ pc = "done")
                    => (ret = "nil" /\ trailers = <<"OK">>)
               /\ (card = "bidi" /\ pc \in {"bd_wait", "done"} /\ err = "nil")
                    => trailers = <<"OK">>

C9_Witness ==
    /\ card = "server"
    /\ pc = "done"
    /\ recvd = <<2, 1>>
    /\ responses = <<2, 1>>
    /\ StubReturned("RecvMsg", "EOF")
    /\ trailers = <<"OK">>

(* ------------------------------- C10 ----------------------------------- *)
\* a SendMsg of the client stream returned io.EOF
SendEOF == card = "client" /\ StubReturned("SendMsg", "EOF")

\* the result of the CloseAndReceive call
CloseResults == {r \in {"nil", "EOF"} \cup StubErrs : StubReturned("CloseAndReceive", r)}

\* C10: in a client-streaming invocation, once a send returned EOF the
\* supplier is not called and no message is sent any more, the next stream
\* operation is close-and-receive, the status it yields is the one passed
\* to OnReceiveTrailers, and no response is delivered when it is not OK.
C10_SendEOF ==
    /\ [](SendEOF =>
            /\ pc \in {"cs_close", "cs_finish", "done"}
            /\ \A i \in 1..Len(stubLog) :
                 stubLog[i] = <<"SendMsg", "EOF">>
                    => (i < Len(stubLog) => stubLog[i + 1][1] = "CloseAndReceive")
            /\ pc = "cs_close" => stubLog[Len(stubLog)] = <<"SendMsg", "EOF">>
            /\ (pc = "done" /\ ret = "nil")
                 => /\ \A r \in CloseResults : trailers = <<FromError(r).stat>>
                    /\ CloseResults # {}
                    /\ trailers[1] # "OK" => responses = <<>>)
    /\ [][SendEOF => (supLog' = supLog /\ sent' = sent)]_vars

C10_Witness ==
    /\ SendEOF
    /\ Len(sent) = 2
    /\ StubReturned("CloseAndReceive", "ResourceExhausted")
    /\ ret = "nil"
    /\ trailers = <<"ResourceExhausted">>
    /\ responses = <<>>

(* ------------------------------- C11 ----------------------------------- *)
\* the stream of the bidi invocation could not be opened
BidiOpenFailed == \E r \in StubErrs : StubReturned("InvokeRpcBidiStream", r)

\* C11: when InvokeRPC has returned from a bidi invocation, on any exit
\* path and in any interleaving, the send task that was spawned has
\* terminated; and no send task exists when opening the stream failed.
C11_SendTaskJoined ==
    /\ pc = "done" => (spc \in {"none", "done"} /\ wg = 0)
    /\ BidiOpenFailed => spc = "none"

C11_Witness ==
    /\ card = "bidi"
    /\ pc = "done"
    /\ spc = "done"
    /\ ret = "errGrpcFailed"

(* ------------------------------- C12 ----------------------------------- *)
\* the engine has read sendErr and classified the final status
BidiClassified == card = "bidi" /\ pc = "bd_wait" /\ pending \in {"nil", "errGrpcFailed"}

\* C12: in a bidi invocation the read of the send task's stored error and
\* the call of OnReceiveTrailers happen only after the send task has
\* terminated.
C12_WaitBeforeClassify ==
    /\ BidiClassified => spc \in {"none", "done"}
    /\ (card = "bidi" /\ trailers # <<>>) => spc \in {"none", "done"}

(* ------------------------------- C13 ----------------------------------- *)
\* C13: once InvokeRPC has returned on a path taken after the child scope
\* was created, the child scope is cancelled; and whenever the caller's
\* scope is cancelled the child scope is cancelled.
C13_ChildCancelled ==
    /\ (pc = "done" /\ ctx # "none") => ctx = "cancelled"
    /\ (callerCtx = "cancelled" /\ ctx # "none") => ctx = "cancelled"

C13_Witness ==
    /\ pc = "done"
    /\ ret = "errTooMany"
    /\ ctx = "cancelled"
    /\ callerCtx = "active"

(* ===================== sequential functions: frame ===================== *)
\* the function f is called on arg and returns r
Apply(f, r) ==
    /\ fn = f
    /\ phase = "call"
    /\ out' = r
    /\ phase' = "ret"
    /\ UNCHANGED <<fn, arg>>
    /\ UNCHANGED <<invokeVars, dialVars, onceVars>>

\* the function f has returned
Returned(f) == fn = f /\ phase = "ret"

(* ============================ serverSource ============================= *)
MaxExtNums == 2

\* what a call of the reflection client can return as its error: nil, a
\* status error with code Unimplemented or with another code, and an error
\* that is not a status
ClientErrs == {"nil", "Unimplemented", "Unavailable", "transport"}

\* the results of the client calls one operation of the source makes: err of
\* the first call, and for AllExtensionsForType the count nums of extension
\* numbers with the error of each ResolveExtension; found tells whether the
\* file returned by FileContainingSymbol holds the symbol
ServerInputs ==
    {[op |-> "ListServices", err |-> e, nums |-> 0, resolve |-> <<>>, found |-> TRUE] :
        e \in ClientErrs}
    \cup {[op |-> "FindSymbol", err |-> e, nums |-> 0, resolve |-> <<>>, found |-> f] :
        e \in ClientErrs, f \in BOOLEAN}
    \cup UNION {{[op |-> "AllExtensionsForType", err |-> e, nums |-> n, resolve |-> r, found |-> TRUE] :
        e \in ClientErrs, r \in [1..n -> ClientErrs]} : n \in 0..MaxExtNums}

reflectionSupport_PassThrough(e) == e

reflectionSupport(e) ==
    IF e = "nil" THEN "nil"
    ELSE IF FromError(e).ok /\ FromError(e).stat = "Unimplemented"
    THEN "ErrReflectionNotSupported"
    ELSE e

\* serverSource.ListServices: the error it returns
ListServicesErr(a) == reflectionSupport(a.err)

\* serverSource.FindSymbol: the error it returns
FindSymbolErr(a) ==
    IF a.err # "nil" THEN reflectionSupport(a.err)
    ELSE IF ~a.found THEN "notFound"
    ELSE "nil"

\* the loop of serverSource.AllExtensionsForType from the i-th number on
RECURSIVE ResolveLoop(_, _)
ResolveLoop(a, i) ==
    IF i > a.nums THEN "nil"
    ELSE IF a.resolve[i] # "nil" THEN reflectionSupport(a.resolve[i])
    ELSE ResolveLoop(a, i + 1)

\* serverSource.AllExtensionsForType: the error it returns
AllExtensionsForTypeErr(a) ==
    IF a.err # "nil" THEN reflectionSupport(a.err)
    ELSE ResolveLoop(a, 1)

ServerListServices ==
    /\ fn = "serverSource"
    /\ arg.op = "ListServices"
    /\ Apply("serverSource", ListServicesErr(arg))

ServerFindSymbol ==
    /\ fn = "serverSource"
    /\ arg.op = "FindSymbol"
    /\ Apply("serverSource", FindSymbolErr(arg))

ServerAllExtensionsForType ==
    /\ fn = "serverSource"
    /\ arg.op = "AllExtensionsForType"
    /\ Apply("serverSource", AllExtensionsForTypeErr(arg))

(* ------------------------------- C14 ----------------------------------- *)
\* the errors of the client calls the operation made, in call order
ClientCalls(a) == <<a.err>> \o a.resolve

\* the first error the reflection client returned to the operation, nil
\* when every call succeeded
ClientError(a) ==
    LET failed == {i \in 1..Len(ClientCalls(a)) : ClientCalls(a)[i] # "nil"}
    IN IF failed = {} THEN "nil"
       ELSE ClientCalls(a)[CHOOSE i \in failed : \A j \in failed : i <= j]

\* the file the client returned does not hold the symbol asked for
SymbolMissing(a) == a.op = "FindSymbol" /\ a.err = "nil" /\ ~a.found

\* C14 as stated: every operation of the reflection-backed source returns
\* ErrReflectionNotSupported for a client error with code Unimplemented,
\* any other client error unchanged, and nil when the client error is nil.
C14_Original ==
    Returned("serverSource")
    => /\ ClientError(arg) = "Unimplemented" => out = "ErrReflectionNotSupported"
       /\ ClientError(arg) \notin {"nil", "Unimplemented"} => out = ClientError(arg)
       /\ ClientError(arg) = "nil" => out = "nil"

\* C14 amended: as above, except that FindSymbol returns a not-found error
\* of its own when the client call succeeded but the returned file does not
\* hold the symbol.
C14_ReflectionSupport ==
    Returned("serverSource")
    => /\ ClientError(arg) = "Unimplemented" => out = "ErrReflectionNotSupported"
       /\ ClientError(arg) \notin {"nil", "Unimplemented"} => out = ClientError(arg)
       /\ ClientError(arg) = "nil"
            => out = (IF SymbolMissing(arg) THEN "notFound" ELSE "nil")

C14_Witness ==
    /\ Returned("serverSource")
    /\ arg.op = "AllExtensionsForType"
    /\ arg.err = "nil"
    /\ arg.nums = 2
    /\ arg.resolve = <<"nil", "Unimplemented">>
    /\ out = "ErrReflectionNotSupported"

(* ================ DescriptorSourceFromFileDescriptorSet ================ *)
MaxSetLen == 2
MaxDeps == 2

\* names of the files a set can hold, and the names a dependency can have
FileNames == {"a", "b"}
DepNames == FileNames \cup {"x"}

\* the elements of a sequence
Range(s) == {s[i] : i \in 1..Len(s)}

\* sequences over S of length at most n without repetition
RECURSIVE DistinctSeqs(_, _)
DistinctSeqs(S, n) ==
    IF n = 0 THEN {<<>>}
    ELSE LET shorter == DistinctSeqs(S, n - 1)
         IN shorter \cup UNION {{Append(s, x) : x \in S \ Range(s)} :
                                  s \in {t \in shorter : Len(t) = n - 1}}

\* a FileDescriptorProto: its name, the names of its dependencies, and
\* whether desc.CreateFileDescriptor accepts its content
FileProtos == [name : FileNames, deps : DistinctSeqs(DepNames, MaxDeps), valid : BOOLEAN]

\* a FileDescriptorSet: a list of file protos
FileSets == UNION {[1..n -> FileProtos] : n \in 0..MaxSetLen}

\* the keys of the map unresolved
UnresolvedNames(files) == {files[i].name : i \in 1..Len(files)}

\* unresolved[name]: the last file proto of the set with that name
Unresolved(files, name) ==
    LET at == {i \in 1..Len(files) : files[i].name = name}
    IN files[CHOOSE i \in at : \A j \in at : j <= i]

\* progress of the construction: the names in the map resolved in the order
\* they were added, the names desc.CreateFileDescriptor was called for, and
\* the error ("overflow": the recursion does not end and the goroutine
\* stack runs over)
NoneResolved == [resolved |-> <<>>, created |-> <<>>, err |-> "nil"]

\* slip: the dependencies of a file are not resolved
ResolveDeps_Skipped(files, st, deps, i, stack) == st

\* resolveFileDescriptor; stack holds the names whose call is in progress
RECURSIVE resolveFileDescriptor(_, _, _, _)
RECURSIVE ResolveDeps(_, _, _, _, _)
resolveFileDescriptor(files, st, name, stack) ==
    IF name \in Range(st.resolved) THEN st
    ELSE IF name \notin UnresolvedNames(files)
    THEN [st EXCEPT !.err = "noDescriptor"]
    ELSE IF name \in stack
    THEN [st EXCEPT !.err = "overflow"]
    ELSE LET fd == Unresolved(files, name)
             st2 == ResolveDeps(files, st, fd.deps, 1, stack \cup {name})
         IN IF st2.err # "nil" THEN st2
            ELSE IF ~fd.valid
            THEN [st2 EXCEPT !.created = Append(@, name), !.err = "createErr"]
            ELSE [st2 EXCEPT !.created = Append(@, name),
                             !.resolved = Append(@, name)]

\* the loop over fd.GetDependency() from the i-th dependency on
ResolveDeps(files, st, deps, i, stack) ==
    IF i > Len(deps) THEN st
    ELSE LET st2 == resolveFileDescriptor(files, st, deps[i], stack)
         IN IF st2.err # "nil" THEN st2
            ELSE ResolveDeps(files, st2, deps, i + 1, stack)

\* the loop over files.File from the i-th file on
RECURSIVE ResolveFiles(_, _, _)
ResolveFiles(files, st, i) ==
    IF i > Len(files) THEN st
    ELSE LET st2 == resolveFileDescriptor(files, st, files[i].name, {})
         IN IF st2.err # "nil" THEN st2
            ELSE ResolveFiles(files, st2, i + 1)

\* DescriptorSourceFromFileDescriptorSet: the source (the names in its file
\* map, none on failure) and the error, with the trace of the construction
DescriptorSourceFromFileDescriptorSet(files) ==
    LET st == ResolveFiles(files, NoneResolved, 1)
    IN [source |-> st.err = "nil",
        files |-> IF st.err = "nil" THEN Range(st.resolved) ELSE {},
        err |-> st.err,
        resolved |-> st.resolved,
        created |-> st.created]

FromFileDescriptorSet ==
    Apply("DescriptorSourceFromFileDescriptorSet",
          DescriptorSourceFromFileDescriptorSet(arg))

(* ------------------------------- C15 ----------------------------------- *)
\* the names n depends on directly, through the file proto the set keeps
DirectDeps(files, n) ==
    IF n \in UnresolvedNames(files) THEN Range(Unresolved(files, n).deps) ELSE {}

\* the names reachable from the names in S through k or fewer dependencies
RECURSIVE Reach(_, _, _)
Reach(files, S, k) ==
    IF k = 0 THEN S
    ELSE Reach(files, S \cup UNION {DirectDeps(files, n) : n \in S}, k - 1)

\* every name a file of the set depends on, directly or transitively
AllDeps(files) ==
    Reach(files, UNION {DirectDeps(files, n) : n \in UnresolvedNames(files)},
          Cardinality(DepNames))

\* some file names a dependency that the set does not hold
MissingDependency(files) == AllDeps(files) \ UnresolvedNames(files) # {}

\* some file of the set depends on itself, directly or transitively
Cyclic(files) ==
    \E n \in UnresolvedNames(files) :
        n \in Reach(files, DirectDeps(files, n), Cardinality(DepNames))

\* desc.CreateFileDescriptor accepts the content of every file kept
AllValid(files) == \A n \in UnresolvedNames(files) : Unresolved(files, n).valid

\* C15: building a source from a file-descriptor set returns an error and
\* no source whenever a file of the set names, directly or through its
\* dependencies, a dependency absent from the set; when every dependency is
\* present and the graph is acyclic (and the content of every file is
\* well-formed) it returns a source with one descriptor per distinct name.
C15_MissingDependency ==
    Returned("DescriptorSourceFromFileDescriptorSet")
    => /\ MissingDependency(arg)
            => (~out.source /\ out.err \in {"noDescriptor", "createErr"})
       /\ (~MissingDependency(arg) /\ ~Cyclic(arg) /\ AllValid(arg))
            => /\ out.source /\ out.err = "nil"
               /\ out.files = UnresolvedNames(arg)
               /\ Len(out.resolved) = Cardinality(UnresolvedNames(arg))

(* ------------------------------- C26 ----------------------------------- *)
\* the position of the name n in the sequence s, 0 when it is absent
PositionIn(s, n) ==
    IF \E i \in 1..Len(s) : s[i] = n
    THEN CHOOSE i \in 1..Len(s) : s[i] = n
    ELSE 0

\* C26: when a source is built from a file-descriptor set whose dependency
\* graph is acyclic, the dependencies of every file are materialized before
\* the file itself, a name once resolved is never materialized again, and
\* a failure to materialize a dependency aborts the resolution of every
\* file that depends on it: no such file is materialized and no source is
\* returned.
C26_DependenciesFirst ==
    (Returned("DescriptorSourceFromFileDescriptorSet") /\ ~Cyclic(arg))
    => /\ \A i \in 1..Len(out.created) :
             \A d \in DirectDeps(arg, out.created[i]) :
                 /\ d \in Range(out.resolved)
                 /\ 0 < PositionIn(out.created, d)
                 /\ PositionIn(out.created, d) < i
       /\ \A i, j \in 1..Len(out.created) : out.created[i] = out.created[j] => i = j
       /\ \A i, j \in 1..Len(out.resolved) : out.resolved[i] = out.resolved[j] => i = j
       /\ out.err # "nil"
             => /\ ~out.source
                /\ \A n \in UnresolvedNames(arg) :
                      DirectDeps(arg, n) \ Range(out.resolved) # {}
                          => n \notin Range(out.created)

\* the set lists a file before the file it depends on and then that file:
\* the dependency was materialized first and only once
C26_Witness ==
    /\ Returned("DescriptorSourceFromFileDescriptorSet")
    /\ Len(arg) = 2
    /\ arg[1].name = "a" /\ arg[1].deps = <<"b">>
    /\ arg[2].name = "b" /\ arg[2].deps = <<>>
    /\ out.created = <<"b", "a">>
    /\ out.resolved = <<"b", "a">>
    /\ out.source

(* ------------------------------- C27 ----------------------------------- *)
\* C27: building a source from a file-descriptor set terminates for every
\* finite set of file protos and returns a source or a construction error;
\* a set whose dependencies form a cycle ends in a construction failure.
C27_CycleFails ==
    Returned("DescriptorSourceFromFileDescriptorSet")
    => /\ out.err \in {"nil", "noDescriptor", "createErr"}
       /\ out.source <=> out.err = "nil"
       /\ Cyclic(arg) => ~out.source

(* ================= DescriptorSourceFromFileDescriptors ================= *)
NumDescs == 3
MaxFiles == 2

\* identities of the *desc.FileDescriptor values that exist
Descs == 1..NumDescs

\* what the descriptors are: the name of each and its dependencies, which
\* were built before it
DescGraphs ==
    {[name |-> nm, deps |-> dp] :
        nm \in [Descs -> FileNames],
        dp \in {f \in [Descs -> DistinctSeqs(Descs, MaxDeps)] :
                  \A d \in Descs : \A e \in Range(f[d]) : e < d}}

\* the descriptors and the files argument
FilesInputs ==
    {[u |-> u, files |-> fs] :
        u \in DescGraphs, fs \in UNION {[1..n -> Descs] : n \in 0..MaxFiles}}

SameDescriptor_ByName(existing, fd) == TRUE

\* existing == fd for the map entry found under the name of fd
SameDescriptor(existing, fd) == existing = fd

\* the map fds as the list of descriptors put into it, with the error
NoFiles == [fds |-> <<>>, err |-> "nil"]

\* addFile and its loop over fd.GetDependencies() from the i-th on
RECURSIVE addFile(_, _, _)
RECURSIVE AddDependencies(_, _, _, _)
addFile(u, fd, st) ==
    LET found == {d \in Range(st.fds) : u.name[d] = u.name[fd]}
    IN IF found # {}
       THEN IF ~SameDescriptor(CHOOSE d \in found : TRUE, fd)
            THEN [st EXCEPT !.err = "multipleCopies"]
            ELSE st
       ELSE AddDependencies(u, u.deps[fd], 1, [st EXCEPT !.fds = Append(@, fd)])

AddDependencies(u, deps, i, st) ==
    IF i > Len(deps) THEN st
    ELSE LET st2 == addFile(u, deps[i], st)
         IN IF st2.err # "nil" THEN st2
            ELSE AddDependencies(u, deps, i + 1, st2)

\* the loop over files from the i-th on
RECURSIVE AddFiles(_, _, _, _)
AddFiles(u, files, i, st) ==
    IF i > Len(files) THEN st
    ELSE LET st2 == addFile(u, files[i], st)
         IN IF st2.err # "nil" THEN st2
            ELSE AddFiles(u, files, i + 1, st2)

\* DescriptorSourceFromFileDescriptors: the file map of the source (none
\* on failure) and the error
DescriptorSourceFromFileDescriptors(a) ==
    LET st == AddFiles(a.u, a.files, 1, NoFiles)
    IN [source |-> st.err = "nil",
        files |-> IF st.err = "nil" THEN Range(st.fds) ELSE {},
        err |-> st.err]

FromFileDescriptors ==
    Apply("DescriptorSourceFromFileDescriptors",
          DescriptorSourceFromFileDescriptors(arg))

(* ------------------------------- C16 ----------------------------------- *)
\* the descriptors reachable from those in S through k or fewer dependencies
RECURSIVE ReachDescs(_, _, _)
ReachDescs(u, S, k) ==
    IF k = 0 THEN S
    ELSE ReachDescs(u, S \cup UNION {Range(u.deps[d]) : d \in S}, k - 1)

\* the given files and everything they depend on
Reachable(a) == ReachDescs(a.u, Range(a.files), NumDescs)

\* two descriptors of distinct identity with one file name are reachable
Duplicate(a) ==
    \E d, e \in Reachable(a) : d # e /\ a.u.name[d] = a.u.name[e]

\* C16: DescriptorSourceFromFileDescriptors fails whenever two distinct
\* descriptors with the same file name are reachable from the given files,
\* and otherwise succeeds, also when one descriptor is given or reached
\* more than once; on success the file map holds exactly one descriptor
\* per name and every dependency of a descriptor it holds.
C16_DistinctIdentity ==
    Returned("DescriptorSourceFromFileDescriptors")
    => /\ Duplicate(arg) => (~out.source /\ out.err = "multipleCopies")
       /\ ~Duplicate(arg)
            => /\ out.source /\ out.err = "nil"
               /\ out.files = Reachable(arg)
               /\ \A d, e \in out.files : arg.u.name[d] = arg.u.name[e] => d = e
               /\ \A d \in out.files : Range(arg.u.deps[d]) \subseteq out.files

\* a descriptor reached as a dependency and then given as a file itself
C16_Witness ==
    /\ Returned("DescriptorSourceFromFileDescriptors")
    /\ arg.files = <<2, 1>>
    /\ arg.u.deps[2] = <<1>>
    /\ arg.u.name[1] = "a"
    /\ arg.u.name[2] = "b"
    /\ out.source
    /\ out.files = {1, 2}

(* ============================= GetAllFiles ============================== *)
MaxServices == 2

\* the file names in the order of the < of Go strings
SortedNames == <<"a", "b">>

\* place of a file name in that order
NameRank(n) == CHOOSE i \in 1..Len(SortedNames) : SortedNames[i] = n

\* The sources GetAllFiles is called with.
\* kind "file": the fileSource that DescriptorSourceFromFileDescriptors made
\* of files; every file declares one service.
FileSource(u, fs) ==
    [kind |-> "file", u |-> u, files |-> fs, svcs |-> <<>>, failAt |-> 1]

\* kind "other": a source without a GetAllFiles method; svcs lists the
\* owning file of each service its ListServices returns (services of
\* different files), and failAt is the call that fails: 0 for ListServices,
\* k for the k-th FindSymbol, a larger number for none.
OtherSource(u, svcs, failAt) ==
    [kind |-> "other", u |-> u, files |-> <<>>, svcs |-> svcs, failAt |-> failAt]

FileDependencies_None(u, fd) == <<>>

\* fd.GetDependencies()
FileDependencies(u, fd) == u.deps[fd]

\* addAllFilesToSet and its loop over the dependencies from the i-th on;
\* all is the map as the list of files put into it
RECURSIVE addAllFilesToSet(_, _, _)
RECURSIVE AddAllDependencies(_, _, _, _)
addAllFilesToSet(u, fd, all) ==
    IF \E d \in Range(all) : u.name[d] = u.name[fd] THEN all
    ELSE AddAllDependencies(u, FileDependencies(u, fd), 1, Append(all, fd))

AddAllDependencies(u, deps, i, all) ==
    IF i > Len(deps) THEN all
    ELSE AddAllDependencies(u, deps, i + 1, addAllFilesToSet(u, deps[i], all))

\* sort.Sort(filesByName(files)) of files with distinct names
RECURSIVE SortByName(_, _)
SortByName(u, S) ==
    IF S = {} THEN <<>>
    ELSE LET first == CHOOSE d \in S :
                        \A e \in S : NameRank(u.name[d]) <= NameRank(u.name[e])
         IN <<first>> \o SortByName(u, S \ {first})

\* the loop over svcNames from the i-th name on: FindSymbol, GetFile and
\* addAllFilesToSet
RECURSIVE CollectFiles(_, _, _)
CollectFiles(a, i, all) ==
    IF i > Len(a.svcs) THEN [files |-> SortByName(a.u, Range(all)), err |-> "nil"]
    ELSE IF a.failAt = i THEN [files |-> <<>>, err |-> "findSymbolErr"]
    ELSE CollectFiles(a, i + 1, addAllFilesToSet(a.u, a.svcs[i], all))

\* GetAllFiles(source): the files and the error
GetAllFiles(a) ==
    IF a.kind = "file"
    THEN [files |-> SortByName(a.u, DescriptorSourceFromFileDescriptors(a).files),
          err |-> "nil"]
    ELSE IF a.failAt = 0 THEN [files |-> <<>>, err |-> "listServicesErr"]
    ELSE CollectFiles(a, 1, <<>>)

CallGetAllFiles == Apply("GetAllFiles", GetAllFiles(arg))

(* ------------------------------- C17 ----------------------------------- *)
\* the owning files of the services that ListServices of the source returns
ServiceFiles(a) ==
    IF a.kind = "file" THEN DescriptorSourceFromFileDescriptors(a).files
    ELSE Range(a.svcs)

\* the names of the files in the result
ResultNames == {arg.u.name[out.files[i]] : i \in 1..Len(out.files)}

\* no two descriptors the source can hand out share a file name
UniqueNames(a) ==
    \A d, e \in ReachDescs(a.u, ServiceFiles(a), NumDescs) :
        a.u.name[d] = a.u.name[e] => d = e

\* C17: for a source with or without the GetAllFiles method, a successful
\* GetAllFiles(source) holds the owning file of every service ListServices
\* returns and every dependency of every file it holds, and no file name
\* twice (files are told apart by name; by identity too when the source
\* has one descriptor per name); the result is sorted by name.
C17_Closure ==
    (Returned("GetAllFiles") /\ out.err = "nil")
    => /\ \A d \in ServiceFiles(arg) : arg.u.name[d] \in ResultNames
       /\ \A d \in Range(out.files) :
            \A e \in Range(arg.u.deps[d]) : arg.u.name[e] \in ResultNames
       /\ \A i, j \in 1..Len(out.files) :
            i < j => NameRank(arg.u.name[out.files[i]]) < NameRank(arg.u.name[out.files[j]])
       /\ UniqueNames(arg)
            => /\ ServiceFiles(arg) \subseteq Range(out.files)
               /\ \A d \in Range(out.files) : Range(arg.u.deps[d]) \subseteq Range(out.files)

\* a source without the method: one service, whose file has a dependency
\* that sorts before it
C17_Witness ==
    /\ Returned("GetAllFiles")
    /\ arg.kind = "other"
    /\ arg.svcs = <<2>>
    /\ arg.u.deps[2] = <<1>>
    /\ arg.u.name[1] = "a"
    /\ arg.u.name[2] = "b"
    /\ out.err = "nil"
    /\ out.files = <<1, 2>>

(* ============================= parseSymbol ============================= *)
MaxNameLen == 4

\* strings are sequences of characters; the characters of a method name
NameChars == {"a", ".", "/"}

\* the strings over the characters S of length at most n
StringsUpTo(S, n) == UNION {[1..k -> S] : k \in 0..n}

LastIndex_First(s, c) ==
    IF \E i \in 1..Len(s) : s[i] = c
    THEN (CHOOSE i \in 1..Len(s) : s[i] = c /\ \A j \in 1..Len(s) : s[j] = c => i <= j) - 1
    ELSE -1

\* strings.LastIndex(s, c) for a one-character c: the 0-based index of the
\* last c in s, -1 when there is none
LastIndex(s, c) ==
    IF \E i \in 1..Len(s) : s[i] = c
    THEN (CHOOSE i \in 1..Len(s) : s[i] = c /\ \A j \in 1..Len(s) : s[j] = c => j <= i) - 1
    ELSE -1

\* s[lo:hi] of Go, with 0-based bounds
Slice(s, lo, hi) == SubSeq(s, lo + 1, hi)

parseSymbol(svcAndMethod) ==
    LET slash == LastIndex(svcAndMethod, "/")
        pos == IF slash < 0 THEN LastIndex(svcAndMethod, ".") ELSE slash
    IN IF pos < 0 THEN [svc |-> <<>>, mth |-> <<>>]
       ELSE [svc |-> Slice(svcAndMethod, 0, pos),
             mth |-> Slice(svcAndMethod, pos + 1, Len(svcAndMethod))]

\* InvokeRPC up to its first call of the descriptor source: the parsed
\* halves, the value returned ("none": the invocation goes on) and the calls
\* made on the source, the handler and the supplier
InvokeRPCParse(methodName) ==
    LET p == parseSymbol(methodName)
    IN IF p.svc = <<>> \/ p.mth = <<>>
       THEN [svc |-> p.svc, mth |-> p.mth, ret |-> "errMalformed", calls |-> <<>>]
       ELSE [svc |-> p.svc, mth |-> p.mth, ret |-> "none",
             calls |-> <<[op |-> "FindSymbol", name |-> p.svc]>>]

CallInvokeRPCParse == Apply("InvokeRPC", InvokeRPCParse(arg))

(* ------------------------------- C18 ----------------------------------- *)
\* the delimiter of a method name: '/' when it holds one, else '.'
Delimiter(s) == IF "/" \in Range(s) THEN "/" ELSE "."

\* C18: parsing splits the method name at the last '/' when it holds any
\* '/', otherwise at the last '.', and never at a '.' when a '/' is there;
\* when there is no delimiter or a half is empty, InvokeRPC returns the
\* malformed-method-name error and has called neither the descriptor
\* source nor the handler nor the supplier.
C18_ParseSymbol ==
    Returned("InvokeRPC")
    => /\ IF Delimiter(arg) \in Range(arg)
          THEN /\ out.svc \o <<Delimiter(arg)>> \o out.mth = arg
               /\ Delimiter(arg) \notin Range(out.mth)
          ELSE out.svc = <<>> /\ out.mth = <<>>
       /\ IF Delimiter(arg) \notin Range(arg) \/ out.svc = <<>> \/ out.mth = <<>>
          THEN out.ret = "errMalformed" /\ out.calls = <<>>
          ELSE out.ret = "none" /\ out.calls = <<[op |-> "FindSymbol", name |-> out.svc]>>

\* a name with a '.' before a '/' and a '.' after it
C18_Witness ==
    /\ Returned("InvokeRPC")
    /\ arg = <<".", "/", ".", "a">>
    /\ out.svc = <<".">>
    /\ out.mth = <<".", "a">>
    /\ out.ret = "none"

(* ========================= MetadataFromHeaders ========================= *)
MaxHeaders == 2
MaxHeaderLen == 4

\* header strings are sequences of bytes; the bytes that occur
UpperA == 65
LowerA == 97
Colon == 58
Space == 32
BinSuffix == <<45, 98, 105, 110>>

\* the headers argument: at most MaxHeaders strings made of at most
\* MaxHeaderLen pieces in all; a piece is a letter in either case, a colon,
\* a space, or the suffix "-bin"
HeaderPieces == {<<UpperA>>, <<LowerA>>, <<Colon>>, <<Space>>, BinSuffix}

\* marks the end of a header in a run of pieces
EndOfHeader == <<0>>

\* the headers that a run of pieces and end marks spells, cur being the
\* header begun
RECURSIVE SplitHeaders(_, _)
SplitHeaders(raw, cur) ==
    IF raw = <<>> THEN <<cur>>
    ELSE IF Head(raw) = EndOfHeader THEN <<cur>> \o SplitHeaders(Tail(raw), <<>>)
    ELSE SplitHeaders(Tail(raw), cur \o Head(raw))

\* the number of elements of s that are in S
CountIn(s, S) == Cardinality({i \in 1..Len(s) : s[i] \in S})

Index_Last(s, c) ==
    IF \E i \in 1..Len(s) : s[i] = c
    THEN (CHOOSE i \in 1..Len(s) : s[i] = c /\ \A j \in 1..Len(s) : s[j] = c => j <= i) - 1
    ELSE -1

\* the 0-based index of the first c in s, -1 when there is none
Index(s, c) ==
    IF \E i \in 1..Len(s) : s[i] = c
    THEN (CHOOSE i \in 1..Len(s) : s[i] = c /\ \A j \in 1..Len(s) : s[j] = c => i <= j) - 1
    ELSE -1

\* strings.SplitN(part, ":", 2), and the append of "" to a single piece
SplitN2(part) ==
    LET pos == Index(part, Colon)
    IN IF pos < 0 THEN <<part, <<>>>>
       ELSE <<Slice(part, 0, pos), Slice(part, pos + 1, Len(part))>>

\* strings.TrimSpace
RECURSIVE TrimLeft(_)
TrimLeft(s) == IF s # <<>> /\ Head(s) = Space THEN TrimLeft(Tail(s)) ELSE s

RECURSIVE TrimRight(_)
TrimRight(s) ==
    IF s # <<>> /\ s[Len(s)] = Space THEN TrimRight(SubSeq(s, 1, Len(s) - 1)) ELSE s

TrimSpace(s) == TrimRight(TrimLeft(s))

\* strings.ToLower
ToLower(s) == [i \in 1..Len(s) |-> IF s[i] \in 65..90 THEN s[i] + 32 ELSE s[i]]

\* strings.HasSuffix
HasSuffix(s, suffix) ==
    Len(s) >= Len(suffix) /\ SubSeq(s, Len(s) - Len(suffix) + 1, Len(s)) = suffix

\* base64Codecs: StdEncoding, URLEncoding, RawStdEncoding, RawURLEncoding
base64Codecs ==
    <<[url |-> FALSE, padded |-> TRUE], [url |-> TRUE, padded |-> TRUE],
      [url |-> FALSE, padded |-> FALSE], [url |-> TRUE, padded |-> FALSE]>>

\* the value of a byte in the alphabet of a codec, -1 when it is not in it
Base64Value(codec, c) ==
    IF c \in 65..90 THEN c - 65
    ELSE IF c \in 97..122 THEN c - 97 + 26
    ELSE IF c \in 48..57 THEN c - 48 + 52
    ELSE IF c = (IF codec.url THEN 45 ELSE 43) THEN 62
    ELSE IF c = (IF codec.url THEN 95 ELSE 47) THEN 63
    ELSE -1

\* the bytes that the 6-bit values v encode, four values to three bytes
RECURSIVE DecodeValues(_)
DecodeValues(v) ==
    IF Len(v) >= 4
    THEN LET n == v[1] * 262144 + v[2] * 4096 + v[3] * 64 + v[4]
         IN <<n \div 65536, (n \div 256) % 256, n % 256>> \o DecodeValues(SubSeq(v, 5, Len(v)))
    ELSE IF Len(v) = 3
    THEN LET n == v[1] * 4096 + v[2] * 64 + v[3]
         IN <<n \div 1024, (n \div 4) % 256>>
    ELSE IF Len(v) = 2
    THEN <<(v[1] * 64 + v[2]) \div 16>>
    ELSE <<>>

\* d.DecodeString(val) for a val without padding characters: a padded codec
\* wants a whole number of quanta, an unpadded one no single left-over byte
DecodeString(codec, val) ==
    IF \/ \E i \in 1..Len(val) : Base64Value(codec, val[i]) < 0
       \/ (codec.padded /\ Len(val) % 4 # 0)
       \/ (~codec.padded /\ Len(val) % 4 = 1)
    THEN [b |-> <<>>, err |-> "corrupt"]
    ELSE [b |-> DecodeValues([i \in 1..Len(val) |-> Base64Value(codec, val[i])]),
          err |-> "nil"]

\* decode: the result of the first codec that accepts val, from the i-th on
RECURSIVE DecodeFrom(_, _)
DecodeFrom(val, i) ==
    IF i > Len(base64Codecs) THEN [b |-> <<>>, err |-> "corrupt"]
    ELSE IF DecodeString(base64Codecs[i], val).err = "nil"
    THEN DecodeString(base64Codecs[i], val)
    ELSE DecodeFrom(val, i + 1)

decode(val) == DecodeFrom(val, 1)

\* the loop of MetadataFromHeaders from the i-th header on
RECURSIVE AddHeaders(_, _, _)
AddHeaders(headers, i, md) ==
    IF i > Len(headers) THEN md
    ELSE IF headers[i] = <<>> THEN AddHeaders(headers, i + 1, md)
    ELSE LET pieces == SplitN2(headers[i])
             headerName == ToLower(TrimSpace(pieces[1]))
             trimmed == TrimSpace(pieces[2])
             val == IF HasSuffix(headerName, BinSuffix) /\ decode(trimmed).err = "nil"
                    THEN decode(trimmed).b
                    ELSE trimmed
         IN AddHeaders(headers, i + 1,
                IF headerName \in DOMAIN md
                THEN [md EXCEPT ![headerName] = Append(@, val)]
                ELSE md @@ (headerName :> <<val>>))

MetadataFromHeaders(headers) == AddHeaders(headers, 1, <<>>)

CallMetadataFromHeaders == Apply("MetadataFromHeaders", MetadataFromHeaders(arg))

(* ------------------------------- C19 ----------------------------------- *)
\* the part of a header before its first colon: the prefix without a colon
\* that is the whole header or is followed by a colon
NamePart(h) ==
    CHOOSE n \in {SubSeq(h, 1, k) : k \in 0..Len(h)} :
        /\ Colon \notin Range(n)
        /\ (Len(n) = Len(h) \/ h[Len(n) + 1] = Colon)

\* the part after the first colon, empty when there is no colon
ValuePart(h) == SubSeq(h, Len(NamePart(h)) + 2, Len(h))

\* the key of a header: its name trimmed and in lower case
KeyOf(h) == ToLower(TrimSpace(NamePart(h)))

\* the non-empty headers with the key k, in input order
HeadersOf(headers, k) ==
    SelectSeq(headers, LAMBDA h : h # <<>> /\ KeyOf(h) = k)

\* the keys of the non-empty headers
KeysOf(headers) == {KeyOf(headers[i]) : i \in {j \in 1..Len(headers) : headers[j] # <<>>}}

\* the value stored for a header: for a name that ends in "-bin" the
\* base64 decoding of the trimmed value when it has one
StoredValue(h) ==
    IF HasSuffix(KeyOf(h), BinSuffix) /\ decode(TrimSpace(ValuePart(h))).err = "nil"
    THEN decode(TrimSpace(ValuePart(h))).b
    ELSE TrimSpace(ValuePart(h))

\* C19 as stated: MetadataFromHeaders skips empty strings, splits every
\* other string at its first colon only, and appends the trimmed value
\* under the trimmed, lower-cased name, in input order.
C19_Original ==
    Returned("MetadataFromHeaders")
    => /\ DOMAIN out = KeysOf(arg)
       /\ \A k \in KeysOf(arg) :
            out[k] = [i \in 1..Len(HeadersOf(arg, k)) |->
                        TrimSpace(ValuePart(HeadersOf(arg, k)[i]))]

\* C19 amended: as above, but under a name that ends in "-bin" a trimmed
\* value that is valid base64 is stored decoded.
C19_MetadataFromHeaders ==
    Returned("MetadataFromHeaders")
    => /\ DOMAIN out = KeysOf(arg)
       /\ \A k \in KeysOf(arg) :
            out[k] = [i \in 1..Len(HeadersOf(arg, k)) |->
                        StoredValue(HeadersOf(arg, k)[i])]

\* "A:a" and "a": one key with the two values in input order
C19_Witness ==
    /\ Returned("MetadataFromHeaders")
    /\ arg = <<<<UpperA, Colon, LowerA>>, <<LowerA>>>>
    /\ DOMAIN out = {<<LowerA>>}
    /\ out[<<LowerA>>] = <<<<LowerA>>, <<>>>>

(* =============== specification of the sequential functions ============= *)
(* ========================= fetchAllExtensions ========================== *)
\* message fields of a message type
MaxFields == 2
\* fully-qualified names of the message types
MsgTypes == {"M", "N"}

\* what a message type declares about extensions: no extension range, or
\* ranges whose extensions the source returns and the registry accepts,
\* or ranges for which AllExtensionsForType fails, or ranges with an
\* extension that AddExtension rejects
ExtKinds == {"none", "ok", "errQuery", "errRegister"}

\* a message type: the message types of its message fields, in order
MsgDescs == [fields : UNION {[1..n -> MsgTypes] : n \in 0..MaxFields}, ext : ExtKinds]

\* the memo alreadyFetched, the calls that went past it, the types passed
\* to AllExtensionsForType, and the error
NoneFetched == [fetched |-> {}, visits |-> <<>>, queries |-> <<>>, err |-> "nil"]

\* slip: the type is not recorded in the memo
Memoize_Forgetful(st, t) == [st EXCEPT !.visits = Append(@, t)]

\* alreadyFetched[msgTypeName] = true
Memoize(st, t) == [st EXCEPT !.fetched = @ \cup {t}, !.visits = Append(@, t)]

\* slip: every type is queried
HasExtensionRanges_Always(g, t) == TRUE

\* len(md.GetExtensionRanges()) > 0
HasExtensionRanges(g, t) == g[t].ext # "none"

\* AllExtensionsForType and AddExtension for the type t
QueryExtensions(g, st, t) ==
    [st EXCEPT !.queries = Append(@, t),
               !.err = IF g[t].ext \in {"errQuery", "errRegister"} THEN g[t].ext ELSE "nil"]

RECURSIVE fetchAllExtensions(_, _, _, _)
RECURSIVE FetchFields(_, _, _, _, _)

\* the loop over md.GetFields(), from the i-th field on
FetchFields(g, st, t, i, stack) ==
    IF i > Len(g[t].fields) \/ st.err # "nil"
    THEN st
    ELSE FetchFields(g, fetchAllExtensions(g, st, g[t].fields[i], stack), t, i + 1, stack)

\* fetchAllExtensions for the type t; stack holds the types of the calls
\* that are active: a call for a type that is on the stack and passes the
\* memo recurs without end and overflows the stack
fetchAllExtensions(g, st, t, stack) ==
    IF t \in st.fetched
    THEN st
    ELSE IF t \in stack
    THEN [st EXCEPT !.err = "overflow"]
    ELSE LET marked == Memoize(st, t)
             queried == IF HasExtensionRanges(g, t)
                        THEN QueryExtensions(g, marked, t)
                        ELSE marked
         IN  IF queried.err # "nil"
             THEN queried
             ELSE FetchFields(g, queried, t, 1, stack \cup {t})

\* the two calls of InvokeRPC, for the input and the output type, with one
\* alreadyFetched map
FetchInputOutput(a) ==
    LET first == fetchAllExtensions(a.types, NoneFetched, a.input, {})
    IN  IF first.err # "nil"
        THEN first
        ELSE fetchAllExtensions(a.types, first, a.output, {})

CallFetchAllExtensions == Apply("fetchAllExtensions", FetchInputOutput(arg))

(* ------------------------------- C25 ----------------------------------- *)
NoRepeat(s) == \A i, j \in 1..Len(s) : s[i] = s[j] => i = j

\* C25: fetchAllExtensions terminates on every message-type graph, also on
\* self-referencing and mutually recursive types; within one invocation
\* each type name is visited at most once across the input and the output
\* type; AllExtensionsForType is queried at most once per type name and
\* only for types that declare an extension range.
C25_FetchAllExtensions ==
    Returned("fetchAllExtensions")
    => /\ out.err # "overflow"
       /\ NoRepeat(out.visits)
       /\ NoRepeat(out.queries)
       /\ \A i \in 1..Len(out.queries) :
             /\ arg.types[out.queries[i]].ext # "none"
             /\ \E j \in 1..Len(out.visits) : out.visits[j] = out.queries[i]

\* mutually recursive types, one of them also self-referencing and with
\* two fields of the same type, both with extension ranges
C25_Witness ==
    /\ Returned("fetchAllExtensions")
    /\ arg.types["M"].fields = <<"N", "M">>
    /\ arg.types["N"].fields = <<"M", "M">>
    /\ arg.input = "M" /\ arg.output = "N"
    /\ out.err = "nil"
    /\ out.visits = <<"M", "N">>
    /\ out.queries = <<"M", "N">>

\* a function of the package and an input for it within the bounds
FunInit ==
    /\ InvokeIdle
    /\ DialIdle
    /\ OnceIdle
    /\ phase = "call"
    /\ out = "none"
    /\ \/ /\ fn = "serverSource"
          /\ arg \in ServerInputs
       \/ /\ fn = "DescriptorSourceFromFileDescriptorSet"
          /\ arg \in FileSets
       \/ /\ fn = "DescriptorSourceFromFileDescriptors"
          /\ arg \in FilesInputs
       \/ /\ fn = "GetAllFiles"
          /\ \E u \in DescGraphs :
                \/ \E fs \in UNION {[1..n -> Descs] : n \in 0..MaxFiles} :
                    /\ DescriptorSourceFromFileDescriptors([u |-> u, files |-> fs]).source
                    /\ arg = FileSource(u, fs)
                \/ \E svcs \in DistinctSeqs(Descs, MaxServices) :
                    \E failAt \in 0..(Len(svcs) + 1) :
                        arg = OtherSource(u, svcs, failAt)
       \/ /\ fn = "InvokeRPC"
          /\ arg \in StringsUpTo(NameChars, MaxNameLen)
       \/ /\ fn = "fetchAllExtensions"
          /\ \E g \in [MsgTypes -> MsgDescs] :
                \E i, o \in MsgTypes :
                    arg = [types |-> g, input |-> i, output |-> o]
       \/ /\ fn = "MetadataFromHeaders"
          /\ \/ arg = <<>>
             \/ \E k \in 0..(MaxHeaderLen + MaxHeaders - 1) :
                  \E raw \in [1..k -> HeaderPieces \cup {EndOfHeader}] :
                      /\ CountIn(raw, HeaderPieces) <= MaxHeaderLen
                      /\ CountIn(raw, {EndOfHeader}) <= MaxHeaders - 1
                      /\ arg = SplitHeaders(raw, <<>>)

FunNext ==
    \/ ServerListServices
    \/ ServerFindSymbol
    \/ ServerAllExtensionsForType
    \/ FromFileDescriptorSet
    \/ FromFileDescriptors
    \/ CallGetAllFiles
    \/ CallInvokeRPCParse
    \/ CallMetadataFromHeaders
    \/ CallFetchAllExtensions

SpecFun == FunInit /\ [][FunNext]_vars

(* ============================ BlockingDial ============================= *)
MaxAttempts == 2

\* capacity of the channel result
ResultCap == 1

\* the values that go through the channel result or are returned: the
\* connection, the error of grpc.DialContext, the error of the n-th dialer
\* call (net dial or TLS handshake), and ctx.Err()
Conn == [kind |-> "conn", n |-> 0]
BlockErr == [kind |-> "blockErr", n |-> 0]
CtxErr == [kind |-> "ctxErr", n |-> 0]
AttemptErr(kind, n) == [kind |-> kind, n |-> n]

writeResult_KeepLast(res) ==
    /\ result' = <<res>>
    /\ written' = Append(written, res)

\* writeResult: the select with a default case sends res when the channel
\* has room and drops it otherwise
writeResult(res) ==
    /\ result' = IF Len(result) < ResultCap THEN Append(result, res) ELSE result
    /\ written' = Append(written, res)

\* the go statement: the goroutine that calls grpc.DialContext starts
DialGo ==
    /\ dpc = "start"
    /\ dpc' = "select"
    /\ gpc' = "dial"
    /\ UNCHANGED <<dialCtx, creds, result, written, dialRet, gres, apc, attempts, connReady>>
    /\ UNCHANGED <<invokeVars, funVars, onceVars>>

\* the caller's context is cancelled or times out
DialCtxDone ==
    /\ dpc # "idle"
    /\ dialCtx = "active"
    /\ dialCtx' = "done"
    /\ UNCHANGED <<creds, result, written, dpc, dialRet, gpc, gres, apc, attempts, connReady>>
    /\ UNCHANGED <<invokeVars, funVars, onceVars>>

\* grpc calls the dialer for a connection attempt
DialerCall ==
    /\ gpc # "idle"
    /\ apc = "idle"
    /\ attempts < MaxAttempts
    /\ attempts' = attempts + 1
    /\ apc' = "netDial"
    /\ UNCHANGED <<dialCtx, creds, result, written, dpc, dialRet, gpc, gres, connReady>>
    /\ UNCHANGED <<invokeVars, funVars, onceVars>>

\* net.Dialer.Dial returns: an error, or a connection while ctx is not done
DialerNetDial ==
    /\ apc = "netDial"
    /\ \/ /\ apc' = "writeDialErr"
          /\ UNCHANGED connReady
       \/ /\ dialCtx = "active"
          /\ apc' = IF creds THEN "handshake" ELSE "idle"
          /\ connReady' = (connReady \/ ~creds)
    /\ UNCHANGED <<dialCtx, creds, result, written, dpc, dialRet, gpc, gres, attempts>>
    /\ UNCHANGED <<invokeVars, funVars, onceVars>>

\* creds.ClientHandshake returns
DialerHandshake ==
    /\ apc = "handshake"
    /\ \/ /\ apc' = "writeHandshakeErr"
          /\ UNCHANGED connReady
       \/ /\ dialCtx = "active"
          /\ apc' = "idle"
          /\ connReady' = TRUE
    /\ UNCHANGED <<dialCtx, creds, result, written, dpc, dialRet, gpc, gres, attempts>>
    /\ UNCHANGED <<invokeVars, funVars, onceVars>>

\* the error the running dialer call is about to report
DialerErr ==
    AttemptErr(IF apc = "writeDialErr" THEN "dialErr" ELSE "handshakeErr", attempts)

\* writeResult(err) in the dialer, which then returns the error
DialerWrite ==
    /\ apc \in {"writeDialErr", "writeHandshakeErr"}
    /\ writeResult(DialerErr)
    /\ apc' = "idle"
    /\ UNCHANGED <<dialCtx, creds, dpc, dialRet, gpc, gres, attempts, connReady>>
    /\ UNCHANGED <<invokeVars, funVars, onceVars>>

\* grpc.DialContext with WithBlock and FailOnNonTempDialError returns: the
\* connection once a dialer call has produced one, an error once a dialer
\* call has failed or ctx is done
DialContextReturns ==
    /\ gpc = "dial"
    /\ \/ /\ connReady
          /\ gres' = Conn
       \/ /\ dialCtx = "done" \/ written # <<>>
          /\ gres' = BlockErr
    /\ gpc' = "write"
    /\ UNCHANGED <<dialCtx, creds, result, written, dpc, dialRet, apc, attempts, connReady>>
    /\ UNCHANGED <<invokeVars, funVars, onceVars>>

\* writeResult(res) in the goroutine, which then ends
DialGoWrite ==
    /\ gpc = "write"
    /\ writeResult(gres)
    /\ gpc' = "exit"
    /\ UNCHANGED <<dialCtx, creds, dpc, dialRet, gres, apc, attempts, connReady>>
    /\ UNCHANGED <<invokeVars, funVars, onceVars>>

\* case res := <-result: the connection or the error is returned
SelectResult ==
    /\ dpc = "select"
    /\ result # <<>>
    /\ dialRet' = Head(result)
    /\ result' = Tail(result)
    /\ dpc' = "returned"
    /\ UNCHANGED <<dialCtx, creds, written, gpc, gres, apc, attempts, connReady>>
    /\ UNCHANGED <<invokeVars, funVars, onceVars>>

\* case <-ctx.Done(): ctx.Err() is returned
SelectDone ==
    /\ dpc = "select"
    /\ dialCtx = "done"
    /\ dialRet' = CtxErr
    /\ dpc' = "returned"
    /\ UNCHANGED <<dialCtx, creds, result, written, gpc, gres, apc, attempts, connReady>>
    /\ UNCHANGED <<invokeVars, funVars, onceVars>>

DialInit ==
    /\ InvokeIdle
    /\ FunIdle
    /\ OnceIdle
    /\ dialCtx \in {"active", "done"}
    /\ creds \in BOOLEAN
    /\ result = <<>>
    /\ written = <<>>
    /\ dpc = "start"
    /\ dialRet = NoResult
    /\ gpc = "idle"
    /\ gres = NoResult
    /\ apc = "idle"
    /\ attempts = 0
    /\ connReady = FALSE

DialNext ==
    \/ DialGo
    \/ DialCtxDone
    \/ DialerCall
    \/ DialerNetDial
    \/ DialerHandshake
    \/ DialerWrite
    \/ DialContextReturns
    \/ DialGoWrite
    \/ SelectResult
    \/ SelectDone

SpecDial == DialInit /\ [][DialNext]_vars

(* ------------------------------- C20 ----------------------------------- *)
\* what BlockingDial can return
DialOutcomes ==
    {Conn, BlockErr, CtxErr}
    \cup {AttemptErr(k, n) : k \in {"dialErr", "handshakeErr"}, n \in 1..MaxAttempts}

\* C20: in every interleaving BlockingDial returns one outcome and keeps
\* it: the context's error, and then the context is done, or else the
\* first result that was written to the channel, unchanged, which is the
\* connection, the error of a dialer call or the error of the blocking
\* dial; the channel never holds more than one result; and a goroutine
\* that is at a writeResult call can always take that step, also after
\* BlockingDial has returned.
C20_OneOutcome ==
    /\ [](/\ Len(result) <= ResultCap
          /\ dpc # "returned" => dialRet = NoResult
          /\ dpc = "returned"
                => /\ dialRet \in DialOutcomes
                   /\ dialRet = CtxErr => dialCtx = "done"
                   /\ dialRet # CtxErr => (written # <<>> /\ dialRet = written[1])
          /\ gpc = "write" => ENABLED DialGoWrite
          /\ apc \in {"writeDialErr", "writeHandshakeErr"} => ENABLED DialerWrite)
    /\ [][dialRet # NoResult => dialRet' = dialRet]_vars

\* BlockingDial has returned the handshake error of the first attempt, and
\* afterwards the error of the blocking dial was written as well
C20_Witness ==
    /\ dpc = "returned"
    /\ dialRet = AttemptErr("handshakeErr", 1)
    /\ gpc = "exit"
    /\ written = <<AttemptErr("handshakeErr", 1), BlockErr>>

(* ------------------------------- C21 ----------------------------------- *)
\* the send task of a bidi invocation stored the error of a failed SendMsg
\* or CloseSend, and the receive loop ended with io.EOF, that is with nil
SendFailedRecvEnded ==
    /\ card = "bidi"
    /\ sendErr \in StubErrs
    /\ StubReturned("RecvMsg", "EOF")

\* C21: when in a bidi invocation the send task ends with a non-EOF error
\* of SendMsg or CloseSend and the receive loop ends with a nil error, then
\* in every interleaving the outcome is that of the send error:
\* OnReceiveTrailers carries its status, or, when it is no status, it is
\* returned without trailers.
C21_SendErrorSupersedes ==
    (pc = "done" /\ SendFailedRecvEnded)
    => IF FromError(sendErr).ok
       THEN trailers = <<sendErr>> /\ ret = "nil"
       ELSE trailers = <<>> /\ ret = "errGrpcFailed"

(* ------------------------------- C22 ----------------------------------- *)
\* the stub failed to open the stream of a streaming method with error r
OpenFailedWith(r) == \E op \in OpenOps : StubReturned(op, r)

\* C22: in the streaming sub-protocols the stream handle is used only
\* after the stub opened the stream: when opening it returns an error, the
\* open is the only stub call of the invocation, no operation is invoked
\* on the absent stream, and the open error is classified like any other
\* terminal error (a status goes to OnReceiveTrailers, anything else is
\* returned without trailers).
C22_StreamUsedAfterOpen ==
    \A r \in StubErrs :
        OpenFailedWith(r)
        => /\ Len(stubLog) = 1
           /\ sendLog = <<>>
           /\ ret # "panic"
           /\ pc = "done"
                => IF FromError(r).ok
                   THEN ret = "nil" /\ trailers = <<r>>
                   ELSE ret = "errGrpcFailed" /\ trailers = <<>>

(* ------------------------------- C23 ----------------------------------- *)
\* the errors InvokeRPC returns before OnResolveMethod
ResolveErrs == {"errMalformed", "errNoService", "errQueryFailed", "errNoMethod"}

\* the RPC was not initiated: no scope for the call, no stub call, no
\* supplier call
NotInitiated ==
    /\ ctx = "none"
    /\ stubLog = <<>> /\ sendLog = <<>>
    /\ supLog = <<>>
    /\ spc = "none"

\* C23: when InvokeRPC fails before dispatch the failure is returned
\* directly, the RPC is not initiated and the supplier is not called: after
\* a failure to resolve the service or the method no handler event has
\* fired; after a failure to fetch the extensions OnResolveMethod is the
\* only handler event that has fired.
C23_FailureBeforeDispatch ==
    /\ ret \in ResolveErrs
         => (pc = "done" /\ NotInitiated /\ events = <<>>
             /\ responses = <<>> /\ trailers = <<>>)
    /\ ret = "errExtensions"
         => (pc = "done" /\ NotInitiated /\ events = <<"OnResolveMethod">>
             /\ responses = <<>> /\ trailers = <<>>)

C23_Witness ==
    /\ pc = "done"
    /\ ret = "errExtensions"
    /\ events = <<"OnResolveMethod">>

(* ================= fileSource.AllExtensionsForType ===================== *)
\* goroutines that call AllExtensionsForType of the same source
MaxCallers == 2
Callers == 1..MaxCallers

\* slip: the registry is built by whoever finds it unfinished
OnceMayRun_Unlocked == erInit # "done"

\* sync.Once.Do runs the function in the first caller only
OnceMayRun == erInit = "fresh"

\* the files caller c has not yet passed to AddExtensionsFromFile
Unscanned(c) == fsFiles \ {f \in fsFiles : \E i \in 1..Len(scans) : scans[i] = <<c, f>>}

\* a goroutine calls AllExtensionsForType
ExtCall(c) ==
    /\ epc[c] = "idle"
    /\ epc' = [epc EXCEPT ![c] = "Do"]
    /\ UNCHANGED <<fsFiles, erInit, er, scans, answers>>
    /\ UNCHANGED <<invokeVars, funVars, dialVars>>

\* erInit.Do: the first caller starts to run the function
DoBegin(c) ==
    /\ epc[c] = "Do"
    /\ OnceMayRun
    /\ erInit' = "running"
    /\ epc' = [epc EXCEPT ![c] = "new"]
    /\ UNCHANGED <<fsFiles, er, scans, answers>>
    /\ UNCHANGED <<invokeVars, funVars, dialVars>>

\* fs.er = &dynamic.ExtensionRegistry{}
NewRegistry(c) ==
    /\ epc[c] = "new"
    /\ er' = [gen |-> er.gen + 1, files |-> {}]
    /\ epc' = [epc EXCEPT ![c] = "scan"]
    /\ UNCHANGED <<fsFiles, erInit, scans, answers>>
    /\ UNCHANGED <<invokeVars, funVars, dialVars>>

\* one iteration of the loop over fs.files, in the order of the map
AddExtensionsFromFile(c) ==
    /\ epc[c] = "scan"
    /\ \E f \in Unscanned(c) :
          /\ er' = [er EXCEPT !.files = @ \cup {f}]
          /\ scans' = Append(scans, <<c, f>>)
    /\ UNCHANGED <<fsFiles, erInit, epc, answers>>
    /\ UNCHANGED <<invokeVars, funVars, dialVars>>

\* the function returns and erInit.Do marks the Once as done
DoEnd(c) ==
    /\ epc[c] = "scan"
    /\ Unscanned(c) = {}
    /\ erInit' = "done"
    /\ epc' = [epc EXCEPT ![c] = "read"]
    /\ UNCHANGED <<fsFiles, er, scans, answers>>
    /\ UNCHANGED <<invokeVars, funVars, dialVars>>

\* erInit.Do of a later caller returns once the Once is done; while the
\* function runs in another goroutine the caller waits
DoSkip(c) ==
    /\ epc[c] = "Do"
    /\ erInit = "done"
    /\ epc' = [epc EXCEPT ![c] = "read"]
    /\ UNCHANGED <<fsFiles, erInit, er, scans, answers>>
    /\ UNCHANGED <<invokeVars, funVars, dialVars>>

\* return fs.er.AllExtensionsForType(typeName), nil
ReadRegistry(c) ==
    /\ epc[c] = "read"
    /\ answers' = [answers EXCEPT ![c] = er]
    /\ epc' = [epc EXCEPT ![c] = "ret"]
    /\ UNCHANGED <<fsFiles, erInit, er, scans>>
    /\ UNCHANGED <<invokeVars, funVars, dialVars>>

OnceInit ==
    /\ InvokeIdle
    /\ FunIdle
    /\ DialIdle
    /\ fsFiles \in SUBSET FileNames
    /\ erInit = "fresh"
    /\ er = NoRegistry
    /\ scans = <<>>
    /\ epc = [c \in Callers |-> "idle"]
    /\ answers = [c \in Callers |-> NoRegistry]

OnceNext ==
    \E c \in Callers :
        \/ ExtCall(c)
        \/ DoBegin(c)
        \/ NewRegistry(c)
        \/ AddExtensionsFromFile(c)
        \/ DoEnd(c)
        \/ DoSkip(c)
        \/ ReadRegistry(c)

SpecOnce == OnceInit /\ [][OnceNext]_vars

(* ------------------------------- C24 ----------------------------------- *)
\* the registry of the source is complete
RegistryBuilt == er = [gen |-> 1, files |-> fsFiles]

\* C24: under any interleaving of concurrent calls of AllExtensionsForType
\* of the file-backed source the registry is built exactly once (one
\* registry is allocated and every file is scanned once), no caller reads
\* the registry before its construction has completed, and every call,
\* first or later, answers from that same registry.
C24_BuiltOnce ==
    /\ er.gen <= 1
    /\ \A i, j \in 1..Len(scans) : scans[i][2] = scans[j][2] => i = j
    /\ erInit = "done" => (RegistryBuilt /\ Len(scans) = Cardinality(fsFiles))
    /\ \A c \in Callers :
          /\ epc[c] \in {"read", "ret"} => (erInit = "done" /\ RegistryBuilt)
          /\ epc[c] = "ret" => answers[c] = [gen |-> 1, files |-> fsFiles]

\* every caller has answered from the registry of a source with two files
C24_Witness ==
    /\ fsFiles = FileNames
    /\ \A c \in Callers : epc[c] = "ret"
    /\ \A c \in Callers : answers[c] = er

(* ------------------------------- C28 ----------------------------------- *)
\* the steps of the goroutine that runs InvokeRPC
MainStep ==
    \/ ResolveMethod \/ FetchExtensions \/ SendHeaders
    \/ UnarySupplier1 \/ UnarySupplier2 \/ UnaryInvoke
    \/ ServerStreamSupplier1 \/ ServerStreamSupplier2 \/ ServerStreamOpen
    \/ ServerStreamHeader \/ ServerStreamRecv \/ ServerStreamFinish
    \/ ClientStreamOpen \/ ClientStreamSupply \/ ClientStreamSend
    \/ ClientStreamCloseAndReceive \/ ClientStreamFinish
    \/ BidiOpen \/ BidiHeader \/ BidiRecv \/ BidiClassify \/ BidiWait

\* the stream operations of the send goroutine and the store of its error
SendStreamStep == SendSendMsg \/ SendCloseSend \/ SendStore

\* the scheduler runs every goroutine that can run, and every operation of
\* the stub and of the stream returns; the request supplier returns when
\* its input arrives, which is left to the caller's environment, as is the
\* cancellation of the caller's scope
SpecLive == Spec /\ WF_vars(MainStep) /\ WF_vars(SendStreamStep)

\* the receive loop of a bidi invocation has ended
RecvLoopEnded == card = "bidi" /\ pc \in {"bd_classify", "bd_wait"}

\* C28: every bidi invocation whose receive loop has ended eventually
\* returns from InvokeRPC, also when the send goroutine is then inside a
\* supplier call that waits for more input.
C28_EventuallyReturns == RecvLoopEnded ~> pc = "done"

(* ------------------------------- C29 ----------------------------------- *)
\* C29: whenever BlockingDial returns an error, the background dial has
\* not established a connection that is then discarded, nor does it
\* afterwards: a connection that grpc.DialContext produced is the value
\* BlockingDial returns.
C29_NoDiscardedConn ==
    (dpc = "returned" /\ dialRet # Conn) => gres # Conn

=============================================================================
